---- MODULE Spec2Model ----
(***************************************************************************)
(* Model of the scrape-and-persist pipeline of the estate repository.      *)
(*                                                                         *)
(* Part I  : the persistence merger, scraper/web2.py save_to_csv and       *)
(*           scraper/webscrap1.py save_to_csv, both writing data/data.csv. *)
(* Part II : the multi-worker detail collector, scraper/fastscrap3.py      *)
(*           PropertyScraper99Acres.scrape_all with its driver pool.       *)
(* Part III: main and scrape_page of scraper/web2.py and webscrap1.py.     *)
(* Part IV : extract_property_details of fastscrap3, webscrap2, webscrap3. *)
(* Part V  : webscrap2 _get_page_source_with_retries.                      *)
(* Part VI : scrape_all of webscrap2 and webscrap3.                        *)
(* Part VII: one call of extract_urls_from_page or                         *)
(*           extract_property_details of fastscrap3, step by step.         *)
(* Part VIII: the hyperlinks extract_urls_from_page reads from a page.     *)
(* Part IX : save_to_csv of fastscrap3, webscrap2 and webscrap3.           *)
(* Part X  : the scroll loops of web2, webscrap1 and fastscrap3.           *)
(* Part XI : predict_property_price of app.py.                             *)
(***************************************************************************)
EXTENDS Integers, Sequences, FiniteSets, TLC

(***************************************************************************)
(* Bounds of the model.                                                    *)
(***************************************************************************)
\* longest batch of records handed to one save_to_csv call
MaxBatch == 2
\* number of save_to_csv calls (of either script) in one behaviour
MaxSaves == 2
\* number of distinct seconds the wall clock shows during a behaviour
MaxClock == 2
\* largest max_workers of a PropertyScraper99Acres
MaxWorkers == 2
\* number of distinct detail-page URLs the site links to
MaxUrls == 2
\* num_pages ranges up to this many pages past the first page walked
MaxPages == 2
\* largest TOTAL_PAGES of web2 and webscrap1
MaxTotalPages == 2
\* largest argument retries of _get_page_source_with_retries
MaxRetries == 4
\* the most hyperlinks on a listing page
MaxLinks == 3
\* the most records one save_to_csv of a detail scraper writes
MaxRows == 2
\* the tallest page at the start of a scroll loop, in scroll steps
MaxScreens == 3

(***************************************************************************)
(* Part I.  Cells, rows and files.                                         *)
(*                                                                         *)
(* A row has the two key columns of web2 (Property Title, Location), the   *)
(* key column of webscrap1 (Project Name) and one column `val` standing    *)
(* for the remaining columns (Price .. Scraped_Date).  A column a script   *)
(* does not produce is a missing cell.                                     *)
(***************************************************************************)
\* the sentinel the extractors leave in a field they could not determine
NA == "N/A"
\* a missing value inside a pandas DataFrame
NaN == "NaN"
\* an empty cell of a CSV file
Blank == ""

Titles == {"A"}
Locs == {"L", NA}
Vals == {"v1", "v2"}
ProjNames == {"P", "Q"}

\* records as extract_property_data returns them (title never the sentinel)
PropertyRecords ==
  [name : {NaN}, title : Titles, loc : Locs, val : Vals]

\* records as extract_project_data returns them, kept by scrape_page only
\* when Project Name is not the sentinel
ProjectRecords ==
  [name : ProjNames, title : {NaN}, loc : {"L"}, val : {"v1"}]

SeqsUpTo(S, n) == UNION {[1..k -> S] : k \in 0..n}

\* a path that does not exist
NoFile == [exists |-> FALSE, hdr |-> FALSE, rows |-> <<>>]
\* a file of zero bytes: open(path, 'w') without a write reaching the disk
ZeroBytes == [exists |-> TRUE, hdr |-> FALSE, rows |-> <<>>]
\* a CSV file holding the header line and the given rows
CsvFile(rows) == [exists |-> TRUE, hdr |-> TRUE, rows |-> rows]

\* DataFrame.to_csv: a missing value is written as the empty string
\* (na_rep=''), every string as it is
ToCsvCell(c) == IF c = NaN THEN Blank ELSE c

ToCsvRow(r) ==
  [name |-> ToCsvCell(r.name), title |-> ToCsvCell(r.title),
   loc |-> ToCsvCell(r.loc), val |-> ToCsvCell(r.val)]

to_csv(df) == CsvFile([i \in 1..Len(df) |-> ToCsvRow(df[i])])

\* pandas.read_csv with the default na_values: an empty cell and the
\* strings "N/A", "NA", ... are loaded as missing values
FromCsvCell(c) == IF c \in {Blank, NA} THEN NaN ELSE c

FromCsvRow(r) ==
  [name |-> FromCsvCell(r.name), title |-> FromCsvCell(r.title),
   loc |-> FromCsvCell(r.loc), val |-> FromCsvCell(r.val)]

\* read_csv raises (EmptyDataError) on a file without a header line
Readable(f) == f.exists /\ f.hdr

read_csv(f) == [i \in 1..Len(f.rows) |-> FromCsvRow(f.rows[i])]

\* subset=['Property Title', 'Location'] of web2
PropertyKey == {"title", "loc"}
\* subset=['Project Name'] of webscrap1
ProjectKey == {"name"}

\* the values of a row in the columns of subset
KeyOf(r, subset) == [c \in subset |-> r[c]]

\* DataFrame.drop_duplicates(subset=..., keep='first'); missing values
\* compare equal to each other and to nothing else
RECURSIVE DropDupFrom(_, _, _, _)
DropDupFrom(df, subset, i, seen) ==
  IF i > Len(df) THEN <<>>
  ELSE IF KeyOf(df[i], subset) \in seen
       THEN DropDupFrom(df, subset, i + 1, seen)
       ELSE <<df[i]>> \o
            DropDupFrom(df, subset, i + 1, seen \cup {KeyOf(df[i], subset)})

drop_duplicates(df, subset) == DropDupFrom(df, subset, 1, {})

\* pd.concat([existing_df, new_df], ignore_index=True)
concat(existing_df, new_df) == existing_df \o new_df

\* faulty variant: the early return of an empty batch is missing
NoDataNeverReturns(properties) == FALSE

\* `if not properties` of web2.save_to_csv
NoData(properties) == properties = <<>>

\* what a write that did not end leaves at the path.  to_csv writes through
\* a buffered handle that reaches the disk when it is closed, so of a table of
\* a few rows nothing is on the disk before the end: the truncated file
PartialWrites(f) == {ZeroBytes}

VARIABLES
  table,      \* the file at output_path, data/data.csv
  backups,    \* the files data/data_backup_<timestamp>.csv, by timestamp
  clock,      \* datetime.now() at the resolution of the backup name
  pc,         \* position of the save_to_csv call: "idle" when none was made
              \* or the last one is forgotten, "done" when one has ended
  branch,     \* which to_csv call of save_to_csv is being executed
  new_df,     \* the batch of the running call
  pending,    \* the file content the running to_csv call is writing
  call,       \* what the running (or just ended) call did so far
  prevOk,     \* the call before it, when that was the same save repeated
  nSaves      \* number of calls started

saveVars ==
  <<table, backups, clock, pc, branch, new_df, pending, call, prevOk, nSaves>>

\* Part II, fastscrap3.py
VARIABLES
  max_workers,  \* self.max_workers
  num_pages,    \* the argument of scrape_all
  mpc,          \* position of the thread running scrape_all
  made,         \* iterations done of the loop of line 322
  driver_pool,  \* self.driver_pool, a FIFO queue of sessions
  nDrivers,     \* sessions created so far, numbered 1..nDrivers
  quitted,      \* sessions on which quit() was called
  workq,        \* tasks submitted to the executor and not yet started
  wpc,          \* position of each executor thread
  wtask,        \* the task each executor thread runs
  wdrv,         \* the session each executor thread holds, 0 for none
  doneq,        \* finished futures in the order as_completed yields them
  consumed,     \* futures the loop over as_completed has handled
  all_urls,     \* the list all_urls
  properties,   \* self.properties, one Property_URL per record
  returned,     \* what extract_property_details returned for each URL
  retval,       \* the value scrape_all returns
  written,      \* whether save_to_csv wrote its file
  saveCalled,   \* whether scrape_all called save_to_csv
  walked        \* history: the pages extract_urls_from_page was called for

collectVars ==
  <<max_workers, num_pages, mpc, made, driver_pool, nDrivers, quitted, workq,
    wpc, wtask, wdrv, doneq, consumed, all_urls, properties, returned, retval,
    written, saveCalled, walked>>

\* Part III, the main functions of web2.py and webscrap1.py
VARIABLES
  script,          \* which script runs: "web2", "webscrap1" or "none"
  total_pages,     \* TOTAL_PAGES of the script
  rpc,             \* position of main
  page,            \* the page number of the loop of main
  attempt,         \* the attempt number of the loop of scrape_page
  all_properties,  \* all_properties / all_projects: the page of each batch
  saves,           \* the lists save_to_csv was called with, in order
  driver,          \* the browser session: "none", "open" or "quit"
  raised,          \* the exception scrape_page let out, "none" if none
  kbd,             \* what became of the keyboard interrupt: "none" while
                   \* none arrived, "caught" or "swallowed"
  kbdHad           \* all_properties when the keyboard interrupt arrived

mainVars ==
  <<script, total_pages, rpc, page, attempt, all_properties, saves, driver,
    raised, kbd, kbdHad>>

\* Part IV, extract_property_details of fastscrap3.py, webscrap2.py and
\* webscrap3.py
VARIABLES
  x_script,     \* the script whose extract_property_details is called
  x_available,  \* whether the call got a session (fastscrap3) or a page
                \* source (webscrap2)
  x_content,    \* the detail page the call meets
  x_result      \* what the call gave: nothing yet, a record, None, or an
                \* exception that left the call

extractVars == <<x_script, x_available, x_content, x_result>>

\* Part V, _get_page_source_with_retries of webscrap2.py
VARIABLES
  f_retries,  \* the argument retries
  f_attempt,  \* the loop variable attempt, 0 before the loop
  f_pc,       \* position of the call
  f_loads,    \* calls of self.driver.get made
  f_failed,   \* attempts that ended in the except clause
  f_sleeps,   \* the backoff delays slept, in tenths of a second
  f_result    \* what the call returned, if it has

fetchVars ==
  <<f_retries, f_attempt, f_pc, f_loads, f_failed, f_sleeps, f_result>>

\* Part VI, scrape_all of webscrap2.py and webscrap3.py
VARIABLES
  q_script,      \* "webscrap2", "webscrap3" or "none"
  q_num_pages,   \* the argument num_pages
  q_pc,          \* position of scrape_all
  q_page,        \* the loop variable page of step 1
  q_all_urls,    \* the list all_urls
  q_idx,         \* the loop variable idx of step 2
  q_properties,  \* self.properties, one Property_URL per record
  q_retval,      \* the value scrape_all returns
  q_written,     \* whether save_to_csv wrote its file
  q_saveCalled,  \* whether scrape_all called save_to_csv
  q_driver       \* self.driver: "none", "open" or "quit"

seqVars ==
  <<q_script, q_num_pages, q_pc, q_page, q_all_urls, q_idx, q_properties,
    q_retval, q_written, q_saveCalled, q_driver>>

\* Part VII, one call of extract_urls_from_page or extract_property_details
\* of fastscrap3.py
VARIABLES
  c_kind,      \* "page": extract_urls_from_page, "url": extract_property_details
  c_pool,      \* self.driver_pool as the call sees it
  c_pc,        \* position of the call
  c_driver,    \* the local driver: a session, or 0 for None
  c_loads,     \* calls of driver.get made
  c_waited,    \* how the WebDriverWait ended: "found", "timeout", "none"
  c_failedAt,  \* the step whose exception reached the except clause
  c_result     \* what the call returned, if it has

callVars ==
  <<c_kind, c_pool, c_pc, c_driver, c_loads, c_waited, c_failedAt, c_result>>

\* Part VIII, the hyperlinks extract_urls_from_page reads from a listing page
VARIABLES
  l_script,  \* the script whose extract_urls_from_page reads the page
  l_links,   \* all_links: the href of every <a href> of the page, in order
  l_urls,    \* the list property_urls the call returns
  l_pc       \* "page" before the links are read, "returned" after

linkVars == <<l_script, l_links, l_urls, l_pc>>

\* Part IX, save_to_csv of fastscrap3.py, webscrap2.py and webscrap3.py
VARIABLES
  t_script,      \* the script whose save_to_csv is called
  t_properties,  \* self.properties: the dicts extract_property_details gave
  t_file,        \* the dataset file: its header and its rows
  t_pc           \* "call" before save_to_csv, "saved" or "failed" after

tableVars == <<t_script, t_properties, t_file, t_pc>>

\* Part X, the scroll loops: scroll_page_gradually of web2.py and
\* webscrap1.py, lines 128-130 of fastscrap3.py
VARIABLES
  s_script,          \* "web2", "webscrap1" or "fastscrap3"
  s_pc,              \* "start", "loop", "done"
  s_scrollHeight,    \* document.body.scrollHeight of the page, in pixels
  s_i,               \* scroll steps made by the call
  current_position,  \* webscrap1: the local current_position
  total_height,      \* webscrap1: total_height; web2: last_height
  s_raised           \* whether an exception ended the scrolling

scrollVars ==
  <<s_script, s_pc, s_scrollHeight, s_i, current_position, total_height,
    s_raised>>

\* Part XI, predict_property_price of app.py
VARIABLES
  label_encoders,   \* the dict loaded from label_encoders.pkl
  feature_columns,  \* the list loaded from feature_columns.pkl
  p_args,           \* the arguments of the call
  features,         \* the dict features, <<>> before the call
  input_df,         \* the row handed to model.predict, <<>> before the call
  p_pc              \* "call", "predicted", or "failed" after an exception

predictVars ==
  <<label_encoders, feature_columns, p_args, features, input_df, p_pc>>

\* the variables of the other scripts, which an action of one script leaves
\* alone
outsideSave ==
  <<collectVars, mainVars, extractVars, fetchVars, seqVars, callVars,
    linkVars, scrollVars, tableVars, predictVars>>
outsideCollect ==
  <<saveVars, mainVars, extractVars, fetchVars, seqVars, callVars, linkVars,
    scrollVars, tableVars, predictVars>>
outsideMain ==
  <<saveVars, collectVars, extractVars, fetchVars, seqVars, callVars,
    linkVars, scrollVars, tableVars, predictVars>>
outsideExtract ==
  <<saveVars, collectVars, mainVars, fetchVars, seqVars, callVars, linkVars,
    scrollVars, tableVars, predictVars>>
outsideFetch ==
  <<saveVars, collectVars, mainVars, extractVars, seqVars, callVars,
    linkVars, scrollVars, tableVars, predictVars>>
outsideSeq ==
  <<saveVars, collectVars, mainVars, extractVars, fetchVars, callVars,
    linkVars, scrollVars, tableVars, predictVars>>
outsideCall ==
  <<saveVars, collectVars, mainVars, extractVars, fetchVars, seqVars,
    linkVars, scrollVars, tableVars, predictVars>>
outsideLink ==
  <<saveVars, collectVars, mainVars, extractVars, fetchVars, seqVars,
    callVars, scrollVars, tableVars, predictVars>>
outsideScroll ==
  <<saveVars, collectVars, mainVars, extractVars, fetchVars, seqVars,
    callVars, linkVars, tableVars, predictVars>>
outsideTable ==
  <<saveVars, collectVars, mainVars, extractVars, fetchVars, seqVars,
    callVars, linkVars, scrollVars, predictVars>>
outsidePredict ==
  <<saveVars, collectVars, mainVars, extractVars, fetchVars, seqVars,
    callVars, linkVars, scrollVars, tableVars>>

Stamps == 1..MaxClock

NoBackups == [t \in Stamps |-> NoFile]

NoCall ==
  [op |-> "none", batch |-> <<>>, pre |-> NoFile, preBackups |-> NoBackups,
   loaded |-> FALSE, loadFailed |-> FALSE, laterFailed |-> FALSE, renamed |-> FALSE,
   stamp |-> 0, previous |-> 0, added |-> 0, final |-> 0, ret |-> "none"]

NoPrev == [ok |-> FALSE, after |-> NoFile]

SaveInit ==
  /\ table = NoFile
  /\ backups = NoBackups
  /\ clock = 1
  /\ pc = "idle"
  /\ branch = "none"
  /\ new_df = <<>>
  /\ pending = NoFile
  /\ call = NoCall
  /\ prevOk = NoPrev
  /\ nSaves = 0

\* a call may start when none was made yet or the last one is forgotten, and
\* right after a call of the same script with the same batch (a repeated save)
CanBegin(op, batch) ==
  /\ nSaves < MaxSaves
  /\ \/ pc = "idle"
     \/ pc = "done" /\ call.op = op /\ call.batch = batch

\* what a repeated save remembers of the save before it
Shift ==
  IF pc = "done" /\ call.op = "web2" /\ call.ret = "true"
  THEN [ok |-> TRUE, after |-> table]
  ELSE NoPrev

Started(op, batch) ==
  [NoCall EXCEPT !.op = op, !.batch = batch, !.pre = table,
                 !.preBackups = backups, !.ret = "running"]

(***************************************************************************)
(* web2.save_to_csv, lines 305-400.  The call is cut where it touches the  *)
(* file system: to_csv opens the path for writing (truncating it) and then *)
(* writes the text; os.rename moves the file.                              *)
(***************************************************************************)
\* faulty variant: backup_path equals output_path, the rename moves nothing aside
RenameToSamePath(bk, stamp, f) == bk

\* backup_path (line 365) names the file by the second of the clock;
\* os.rename (line 367) moves the content there, replacing what was there
RenameTo(bk, stamp, f) == [bk EXCEPT ![stamp] = f]

\* lines 329-339: existing rows first, then the new ones, first copy kept
Combine(existing_df, batch) ==
  drop_duplicates(concat(existing_df, batch), PropertyKey)

\* lines 378-381: the batch de-duplicated for a new file
NewFileFrame(batch) == drop_duplicates(batch, PropertyKey)

\* line 371: the batch as written after a failed load
FreshFrame(batch) == batch

\* lines 307-310: nothing to save
Web2NoData ==
  /\ CanBegin("web2", <<>>)
  /\ NoData(<<>>)
  /\ prevOk' = Shift
  /\ call' = [Started("web2", <<>>) EXCEPT !.ret = "false"]
  /\ pc' = "done"
  /\ branch' = "none"
  /\ new_df' = <<>>
  /\ pending' = NoFile
  /\ nSaves' = nSaves + 1
  /\ UNCHANGED <<table, backups, clock>>
  /\ UNCHANGED outsideSave

\* lines 374-384: no file at output_path
Web2BeginNew(batch) ==
  /\ CanBegin("web2", batch)
  /\ ~NoData(batch)
  /\ ~table.exists
  /\ prevOk' = Shift
  /\ call' = Started("web2", batch)
  /\ new_df' = batch
  /\ branch' = "new"
  /\ pending' = to_csv(NewFileFrame(batch))
  /\ pc' = "open"
  /\ nSaves' = nSaves + 1
  /\ UNCHANGED <<table, backups, clock>>
  /\ UNCHANGED outsideSave

\* lines 318-347: the file exists and read_csv loads it
Web2BeginLoaded(batch) ==
  /\ CanBegin("web2", batch)
  /\ ~NoData(batch)
  /\ table.exists /\ Readable(table)
  /\ prevOk' = Shift
  /\ LET existing_df == read_csv(table)
     IN /\ call' = [Started("web2", batch) EXCEPT
                      !.loaded = TRUE, !.previous = Len(existing_df)]
        /\ pending' = to_csv(Combine(existing_df, batch))
  /\ new_df' = batch
  /\ branch' = "combined"
  /\ pc' = "open"
  /\ nSaves' = nSaves + 1
  /\ UNCHANGED <<table, backups, clock>>
  /\ UNCHANGED outsideSave

\* lines 318-323, 360-365: the file exists and read_csv raises
Web2BeginUnreadable(batch) ==
  /\ CanBegin("web2", batch)
  /\ ~NoData(batch)
  /\ table.exists /\ ~Readable(table)
  /\ prevOk' = Shift
  /\ call' = [Started("web2", batch) EXCEPT !.loadFailed = TRUE]
  /\ new_df' = batch
  /\ branch' = "none"
  /\ pending' = NoFile
  /\ pc' = "rename"
  /\ nSaves' = nSaves + 1
  /\ UNCHANGED <<table, backups, clock>>
  /\ UNCHANGED outsideSave

\* webscrap1.save_to_csv, lines 343-361: no read of the file; the batch is
\* de-duplicated by Project Name and written over output_path
W1Frame(batch) == drop_duplicates(batch, ProjectKey)

\* webscrap1 lines 346-348
W1NoData ==
  /\ CanBegin("webscrap1", <<>>)
  /\ prevOk' = NoPrev
  /\ call' = [Started("webscrap1", <<>>) EXCEPT !.ret = "false"]
  /\ pc' = "done"
  /\ branch' = "none"
  /\ new_df' = <<>>
  /\ pending' = NoFile
  /\ nSaves' = nSaves + 1
  /\ UNCHANGED <<table, backups, clock>>
  /\ UNCHANGED outsideSave

W1Begin(batch) ==
  /\ CanBegin("webscrap1", batch)
  /\ batch # <<>>
  /\ prevOk' = NoPrev
  /\ call' = Started("webscrap1", batch)
  /\ new_df' = batch
  /\ branch' = "w1"
  /\ pending' = to_csv(W1Frame(batch))
  /\ pc' = "open"
  /\ nSaves' = nSaves + 1
  /\ UNCHANGED <<table, backups, clock>>
  /\ UNCHANGED outsideSave

\* an exception inside the inner try of web2 (lines 321-358) enters the
\* handler of line 360; anywhere else the outer handler returns False
\* (web2 lines 398-400, webscrap1 lines 372-374)
Raised ==
  IF branch = "combined"
  THEN /\ pc' = "rename"
       /\ call' = [call EXCEPT !.laterFailed = TRUE]
  ELSE /\ pc' = "done"
       /\ call' = [call EXCEPT !.ret = "false"]

\* to_csv opens output_path with mode 'w': the file is created or truncated
OpenForWrite ==
  /\ pc = "open"
  /\ table' = ZeroBytes
  /\ pc' = "write"
  /\ UNCHANGED <<backups, clock, branch, new_df, pending, call, prevOk, nSaves>>
  /\ UNCHANGED outsideSave

\* lines 349-356 of web2: the counts reported on the load-success path
Counted(c) ==
  IF branch = "combined"
  THEN [c EXCEPT !.added = Len(pending.rows) - c.previous,
                 !.final = Len(pending.rows)]
  ELSE c

\* to_csv writes the text and closes the file; the call returns True
WriteAll ==
  /\ pc = "write"
  /\ table' = pending
  /\ call' = [Counted(call) EXCEPT !.ret = "true"]
  /\ pc' = "done"
  /\ UNCHANGED <<backups, clock, branch, new_df, pending, prevOk, nSaves>>
  /\ UNCHANGED outsideSave

\* the write fails part way (OSError, e.g. no space left)
WriteFails ==
  /\ pc = "write"
  /\ table' \in PartialWrites(pending)
  /\ Raised
  /\ UNCHANGED <<backups, clock, branch, new_df, pending, prevOk, nSaves>>
  /\ UNCHANGED outsideSave

\* web2 lines 365-371: the handler of the inner try
RenameToBackup ==
  /\ pc = "rename"
  /\ IF table.exists
     THEN /\ backups' = RenameTo(backups, clock, table)
          /\ table' = NoFile
          /\ call' = [call EXCEPT !.renamed = TRUE, !.stamp = clock]
     ELSE UNCHANGED <<backups, table, call>>
  /\ branch' = "fresh"
  /\ pending' = to_csv(FreshFrame(new_df))
  /\ pc' = "open"
  /\ UNCHANGED <<clock, new_df, prevOk, nSaves>>
  /\ UNCHANGED outsideSave

\* os.rename raises: the outer handler returns False
RenameFails ==
  /\ pc = "rename"
  /\ pc' = "done"
  /\ call' = [call EXCEPT !.ret = "false"]
  /\ UNCHANGED <<table, backups, clock, branch, new_df, pending, prevOk, nSaves>>
  /\ UNCHANGED outsideSave

\* the process is interrupted (KeyboardInterrupt is no Exception and passes
\* both handlers) or killed while a call is running
Interrupt ==
  /\ pc \in {"open", "write", "rename"}
  /\ IF pc = "write"
     THEN table' \in PartialWrites(pending)
     ELSE table' = table
  /\ pc' = "done"
  /\ call' = [call EXCEPT !.ret = "interrupted"]
  /\ UNCHANGED <<backups, clock, branch, new_df, pending, prevOk, nSaves>>
  /\ UNCHANGED outsideSave

\* the ended call is forgotten: only the files remain
Forget ==
  /\ pc = "done"
  /\ pc' = "idle"
  /\ call' = NoCall
  /\ prevOk' = NoPrev
  /\ branch' = "none"
  /\ new_df' = <<>>
  /\ pending' = NoFile
  /\ UNCHANGED <<table, backups, clock, nSaves>>
  /\ UNCHANGED outsideSave

\* a second passes.  The clock is read only by the rename of line 365-367,
\* so a second passing during a call acts like one passing before or after it
Tick ==
  /\ pc = "idle"
  /\ clock < MaxClock
  /\ clock' = clock + 1
  /\ UNCHANGED <<table, backups, pc, branch, new_df, pending, call, prevOk, nSaves>>
  /\ UNCHANGED outsideSave

SaveNext ==
  \/ Web2NoData
  \/ \E batch \in SeqsUpTo(PropertyRecords, MaxBatch) : Web2BeginNew(batch)
  \/ \E batch \in SeqsUpTo(PropertyRecords, MaxBatch) : Web2BeginLoaded(batch)
  \/ \E batch \in SeqsUpTo(PropertyRecords, MaxBatch) : Web2BeginUnreadable(batch)
  \/ W1NoData
  \/ \E batch \in SeqsUpTo(ProjectRecords, MaxBatch) : W1Begin(batch)
  \/ OpenForWrite
  \/ WriteAll
  \/ WriteFails
  \/ RenameToBackup
  \/ RenameFails
  \/ Interrupt
  \/ Forget
  \/ Tick


(***************************************************************************)
(* Part IV.  extract_property_details: fastscrap3.py lines 165-308,        *)
(* webscrap2.py lines 207-329, webscrap3.py lines 152-289.  A detail page  *)
(* is described by what the extraction looks for in it.                    *)
(***************************************************************************)
Extractors == {"fastscrap3", "webscrap2", "webscrap3"}

\* optional fields of property_data, two of the nineteen
OptionalFields == {"Price", "Location"}

\* the phases of a call in which a statement may raise
Phases == {"load", "parse"}

\* a detail page: whether it has an h1 element, which optional patterns
\* match its text, and the phase in which handling it raises ("none" if in
\* none)
PageContents ==
  [h1 : BOOLEAN, matched : SUBSET OptionalFields, raisesAt : Phases \cup {"none"}]

\* faulty variant: no try block around the extraction
HandledNowhere(s) == {}

\* the phases that stand in a try block with `except Exception`:
\* fastscrap3 lines 196-306; webscrap2 lines 142-165 (loading, in
\* _get_page_source_with_retries) and 237-329; webscrap3 lines 179-289
HandledPhases(s) == {"load", "parse"}

\* the property_data dict at `return property_data`
Extracted(content) ==
  [is |-> "dict",
   title |-> IF content.h1 THEN "h1 text" ELSE NA,
   url |-> "property_url",
   date |-> "now",
   opt |-> [f \in OptionalFields |->
              IF f \in content.matched THEN "match" ELSE NA]]

\* whether the call goes on past its first lines: fastscrap3 returns None
\* without a session (lines 168-170), webscrap2 without a page source
\* (lines 233-235), where every attempt to load the page has failed;
\* webscrap3 uses self.driver as it is
GoesOn(s, available) == s = "webscrap3" \/ available

\* `return None`, an exception leaving the call, and no call yet
ReturnsNone == [is |-> "None"]
Raises == [is |-> "raised"]
NotCalled == [is |-> "not called"]

extract_property_details(s, available, content) ==
  IF ~GoesOn(s, available) THEN ReturnsNone
  ELSE IF content.raisesAt # "none"
       THEN IF content.raisesAt \in HandledPhases(s) THEN ReturnsNone ELSE Raises
       ELSE Extracted(content)

\* what a result is to the caller: a record with a title, a record whose
\* Property_Title is still "N/A", or None
Kind(res) ==
  IF res.is # "dict" THEN "None"
  ELSE IF res.title = NA THEN "untitled" ELSE "record"

ExtractInit ==
  /\ x_script \in Extractors
  /\ x_available \in BOOLEAN
  /\ x_content \in PageContents
  /\ x_result = NotCalled

\* one call of extract_property_details
Extract ==
  /\ x_result = NotCalled
  /\ x_script \in Extractors
  /\ x_result' = extract_property_details(x_script, x_available, x_content)
  /\ UNCHANGED <<x_script, x_available, x_content>>
  /\ UNCHANGED outsideExtract

ExtractNext == Extract

(***************************************************************************)
(* Part II.  fastscrap3.py, PropertyScraper99Acres: the driver pool, the   *)
(* two thread pools of scrape_all and the accumulator self.properties.     *)
(***************************************************************************)
\* range(36, num_pages + 1), line 336
FirstPage == 36

WorkerIds == 1..MaxWorkers
Urls == 1..MaxUrls

\* the URL lists extract_urls_from_page can return: no URL twice (lines
\* 151-154), here in the order of the page
RECURSIVE Ascending(_)
Ascending(S) ==
  IF S = {} THEN <<>>
  ELSE LET m == CHOOSE x \in S : \A y \in S : x <= y
       IN <<m>> \o Ascending(S \ {m})

PageLists == {Ascending(S) : S \in SUBSET Urls}

\* what extract_property_details returns: a record with a title, a record
\* whose Property_Title is still "N/A" (no h1 on the page), or None
DetailResults == {"record", "untitled", "None"}

\* `if prop_data:` of line 372: a dict is true, None is not
Truthy(res) == res # "None"

\* faulty variant: dict.fromkeys leaves the list as it is
FromKeysKeepsAll(urls, seen) == urls

\* list(dict.fromkeys(all_urls)), line 348
RECURSIVE FromKeys(_, _)
FromKeys(urls, seen) ==
  IF urls = <<>> THEN <<>>
  ELSE IF Head(urls) \in seen
       THEN FromKeys(Tail(urls), seen)
       ELSE <<Head(urls)>> \o FromKeys(Tail(urls), seen \cup {Head(urls)})

PageTask(p) == [kind |-> "page", id |-> p]
UrlTask(u) == [kind |-> "url", id |-> u]
NoTask == [kind |-> "none", id |-> 0]

CollectInit ==
  /\ max_workers \in WorkerIds
  /\ num_pages \in (FirstPage - 1)..(FirstPage - 1 + MaxPages)
  /\ mpc = "init"
  /\ made = 0
  /\ driver_pool = <<>>
  /\ nDrivers = 0
  /\ quitted = {}
  /\ workq = <<>>
  /\ wpc = [w \in WorkerIds |-> "idle"]
  /\ wtask = [w \in WorkerIds |-> NoTask]
  /\ wdrv = [w \in WorkerIds |-> 0]
  /\ doneq = <<>>
  /\ consumed = 0
  /\ all_urls = <<>>
  /\ properties = <<>>
  /\ returned = [u \in Urls |-> "pending"]
  /\ retval = "none"
  /\ written = FALSE
  /\ saveCalled = FALSE
  /\ walked = <<>>

\* lines 322-325: one iteration of the loop that fills the pool;
\* create_driver returns a session or, after an exception, None
InitCreate(ok) ==
  /\ mpc = "init" /\ made < max_workers
  /\ made' = made + 1
  /\ IF ok
     THEN /\ nDrivers' = nDrivers + 1
          /\ driver_pool' = Append(driver_pool, nDrivers + 1)
     ELSE UNCHANGED <<nDrivers, driver_pool>>
  /\ UNCHANGED <<max_workers, walked, num_pages, mpc, quitted, workq, wpc, wtask, wdrv,
                 doneq, consumed, all_urls, properties, returned, retval, written, saveCalled>>
  /\ UNCHANGED outsideCollect

\* faulty variant: the range starts one page early
PagesFromBelow ==
  [i \in 1..(num_pages - FirstPage + 2) |-> PageTask(FirstPage + i - 2)]

\* the pages of range(36, num_pages + 1)
PagesToWalk == [i \in 1..(num_pages - FirstPage + 1) |-> PageTask(FirstPage + i - 1)]

\* lines 333-337: one task per listing page is submitted
SubmitPages ==
  /\ mpc = "init" /\ made = max_workers
  /\ workq' = PagesToWalk
  /\ mpc' = "step1"
  /\ UNCHANGED <<max_workers, walked, num_pages, made, driver_pool, nDrivers, quitted,
                 wpc, wtask, wdrv, doneq, consumed, all_urls, properties,
                 returned, retval, written, saveCalled>>
  /\ UNCHANGED outsideCollect

\* lines 339-343: the URLs of a finished page are appended
ConsumePage ==
  /\ mpc = "step1" /\ doneq # <<>>
  /\ all_urls' = all_urls \o Head(doneq).result
  /\ doneq' = Tail(doneq)
  /\ consumed' = consumed + 1
  /\ UNCHANGED <<max_workers, walked, num_pages, mpc, made, driver_pool, nDrivers,
                 quitted, workq, wpc, wtask, wdrv, properties, returned, retval,
                 written, saveCalled>>
  /\ UNCHANGED outsideCollect

\* lines 348-352: every page is handled; no URL at all ends the run
NoUrlsFound ==
  /\ mpc = "step1" /\ consumed = Len(PagesToWalk)
  /\ FromKeys(all_urls, {}) = <<>>
  /\ retval' = "False"
  /\ mpc' = "finally"
  /\ UNCHANGED <<max_workers, walked, num_pages, made, driver_pool, nDrivers, quitted,
                 workq, wpc, wtask, wdrv, doneq, consumed, all_urls, properties,
                 returned, written, saveCalled>>
  /\ UNCHANGED outsideCollect

\* lines 348, 362-366: the URLs are de-duplicated and one task per URL is
\* submitted
SubmitUrls ==
  /\ mpc = "step1" /\ consumed = Len(PagesToWalk)
  /\ FromKeys(all_urls, {}) # <<>>
  /\ all_urls' = FromKeys(all_urls, {})
  /\ workq' = [i \in 1..Len(all_urls') |-> UrlTask(all_urls'[i])]
  /\ consumed' = 0
  /\ mpc' = "step2"
  /\ UNCHANGED <<max_workers, walked, num_pages, made, driver_pool, nDrivers, quitted,
                 wpc, wtask, wdrv, doneq, properties, returned, retval, written, saveCalled>>
  /\ UNCHANGED outsideCollect

\* faulty variant: the test `if prop_data` is missing
AccumulateUnchecked(props, url, res) == Append(props, url)

\* lines 371-375: the record of a finished future is appended when it is one
Accumulate(props, url, res) ==
  IF Truthy(res) THEN Append(props, url) ELSE props

\* lines 368-379: one turn of the loop over as_completed
ConsumeDetail ==
  /\ mpc = "step2" /\ doneq # <<>>
  /\ properties' = Accumulate(properties, Head(doneq).task.id, Head(doneq).result)
  /\ doneq' = Tail(doneq)
  /\ consumed' = consumed + 1
  /\ UNCHANGED <<max_workers, walked, num_pages, mpc, made, driver_pool, nDrivers,
                 quitted, workq, wpc, wtask, wdrv, all_urls, returned, retval,
                 written, saveCalled>>
  /\ UNCHANGED outsideCollect

\* line 381: every future is handled and the executor has shut down
EndStep2 ==
  /\ mpc = "step2" /\ consumed = Len(all_urls)
  /\ mpc' = "step3"
  /\ UNCHANGED <<max_workers, walked, num_pages, made, driver_pool, nDrivers, quitted,
                 workq, wpc, wtask, wdrv, doneq, consumed, all_urls, properties,
                 returned, retval, written, saveCalled>>
  /\ UNCHANGED outsideCollect

\* faulty variant: step 3 does not look at self.properties
HasRecordsAlways(props) == TRUE

\* `if self.properties:` of line 384
HasRecords(props) == props # <<>>

\* lines 384-389 with save_to_csv, lines 397-426: save_to_csv catches its
\* own exceptions and returns nothing; scrape_all returns True after it
SaveStep(ok) ==
  /\ mpc = "step3"
  /\ IF HasRecords(properties)
     THEN /\ written' = ok
          /\ saveCalled' = TRUE
          /\ retval' = "True"
     ELSE /\ written' = FALSE
          /\ saveCalled' = FALSE
          /\ retval' = "False"
  /\ mpc' = "finally"
  /\ UNCHANGED <<max_workers, walked, num_pages, made, driver_pool, nDrivers, quitted,
                 workq, wpc, wtask, wdrv, doneq, consumed, all_urls, properties,
                 returned>>
  /\ UNCHANGED outsideCollect

\* the positions of scrape_all inside a `with ThreadPoolExecutor` block
InExecutor(pos) == pos \in {"step1", "step2"}

\* an exception or a KeyboardInterrupt leaves the try block of lines
\* 319-389; inside a `with` block the executor's __exit__ first waits for
\* the submitted tasks (shutdown(wait=True))
Leave(pos) == IF InExecutor(pos) THEN "shutdown" ELSE "finally"

\* lines 391-393: an exception of the thread running scrape_all outside the
\* inner try blocks (e.g. executor.submit cannot start a thread) is logged
\* as a critical error and scrape_all returns False
CriticalError ==
  /\ mpc \in {"init", "step1", "step2"}
  /\ retval' = "False"
  /\ mpc' = Leave(mpc)
  /\ UNCHANGED <<max_workers, walked, num_pages, made, driver_pool, nDrivers, quitted,
                 workq, wpc, wtask, wdrv, doneq, consumed, all_urls, properties,
                 returned, written, saveCalled>>
  /\ UNCHANGED outsideCollect

\* Ctrl-C: `except Exception` (line 391, and line 425 inside save_to_csv)
\* does not take a KeyboardInterrupt and scrape_all has no other handler;
\* the finally clause runs and the interrupt leaves scrape_all.  In step 3
\* it arrives while save_to_csv is at work, before the file is written.
KeyboardInterrupt ==
  /\ mpc \in {"init", "step1", "step2", "step3"}
  /\ retval' = "KeyboardInterrupt"
  /\ saveCalled' = (mpc = "step3" /\ HasRecords(properties))
  /\ mpc' = Leave(mpc)
  /\ UNCHANGED <<max_workers, walked, num_pages, made, driver_pool, nDrivers, quitted,
                 workq, wpc, wtask, wdrv, doneq, consumed, all_urls, properties,
                 returned, written>>
  /\ UNCHANGED outsideCollect

\* ThreadPoolExecutor.__exit__: every submitted task has run
ShutdownDone ==
  /\ mpc = "shutdown"
  /\ workq = <<>>
  /\ \A w \in WorkerIds : wpc[w] = "idle"
  /\ mpc' = "finally"
  /\ UNCHANGED <<max_workers, walked, num_pages, made, driver_pool, nDrivers, quitted,
                 workq, wpc, wtask, wdrv, doneq, consumed, all_urls, properties,
                 returned, retval, written, saveCalled>>
  /\ UNCHANGED outsideCollect

\* lines 93-100, 394-395: close_all_drivers empties the pool
Range(q) == {q[i] : i \in 1..Len(q)}

CloseAllDrivers ==
  /\ mpc = "finally"
  /\ quitted' = quitted \cup Range(driver_pool)
  /\ driver_pool' = <<>>
  /\ mpc' = "returned"
  /\ UNCHANGED <<max_workers, walked, num_pages, made, nDrivers, workq, wpc, wtask, wdrv,
                 doneq, consumed, all_urls, properties, returned, retval, written, saveCalled>>
  /\ UNCHANGED outsideCollect

\* the result a call leaves when get_driver gave no session (lines 106-107,
\* 169-170)
NoDriverResult(task) == IF task.kind = "page" THEN <<>> ELSE "None"

\* the future of a task is done with a result
Completed(task, res) ==
  /\ doneq' = Append(doneq, [task |-> task, result |-> res])
  /\ returned' = IF task.kind = "url"
                 THEN [returned EXCEPT ![task.id] = res]
                 ELSE returned

\* an executor thread takes the next submitted task
TakeTask(w) ==
  /\ w <= max_workers
  /\ wpc[w] = "idle" /\ workq # <<>>
  /\ wtask' = [wtask EXCEPT ![w] = Head(workq)]
  /\ workq' = Tail(workq)
  /\ wpc' = [wpc EXCEPT ![w] = "check"]
  /\ walked' = IF Head(workq).kind = "page"
               THEN Append(walked, Head(workq).id) ELSE walked
  /\ UNCHANGED <<max_workers, num_pages, mpc, made, driver_pool, nDrivers,
                 quitted, wdrv, doneq, consumed, all_urls, properties, returned,
                 retval, written, saveCalled>>
  /\ UNCHANGED outsideCollect

\* faulty variant: get_driver never looks into the pool
PoolChoiceAlwaysCreate(pool) == "create"

\* get_driver, line 84: `if not self.driver_pool.empty()` chooses between
\* driver_pool.get() and create_driver()
PoolChoice(pool) == IF pool # <<>> THEN "get" ELSE "create"

\* get_driver, line 84: the test of driver_pool.empty()
CheckPool(w) ==
  /\ wpc[w] = "check"
  /\ wpc' = [wpc EXCEPT ![w] = PoolChoice(driver_pool)]
  /\ UNCHANGED <<max_workers, walked, num_pages, mpc, made, driver_pool, nDrivers,
                 quitted, workq, wtask, wdrv, doneq, consumed, all_urls,
                 properties, returned, retval, written, saveCalled>>
  /\ UNCHANGED outsideCollect

\* faulty variant: get leaves the session in the queue
PoolAfterGetKeeps(pool) == pool

\* get_driver, line 85: Queue.get takes the oldest session out of the queue
PoolAfterGet(pool) == Tail(pool)

\* get_driver, line 85: driver_pool.get() waits until the queue holds a
\* session and takes the oldest
GetFromPool(w) ==
  /\ wpc[w] = "get"
  /\ driver_pool # <<>>
  /\ wdrv' = [wdrv EXCEPT ![w] = Head(driver_pool)]
  /\ driver_pool' = PoolAfterGet(driver_pool)
  /\ wpc' = [wpc EXCEPT ![w] = "run"]
  /\ UNCHANGED <<max_workers, walked, num_pages, mpc, made, nDrivers, quitted, workq,
                 wtask, doneq, consumed, all_urls, properties, returned, retval,
                 written, saveCalled>>
  /\ UNCHANGED outsideCollect

\* get_driver, line 86: create_driver gives a new session
CreateDriver(w) ==
  /\ wpc[w] = "create"
  /\ nDrivers' = nDrivers + 1
  /\ wdrv' = [wdrv EXCEPT ![w] = nDrivers + 1]
  /\ wpc' = [wpc EXCEPT ![w] = "run"]
  /\ UNCHANGED <<max_workers, walked, num_pages, mpc, made, driver_pool, quitted, workq,
                 wtask, doneq, consumed, all_urls, properties, returned, retval,
                 written, saveCalled>>
  /\ UNCHANGED outsideCollect

\* get_driver, line 86: create_driver returns None and the call ends at
\* once (lines 106-107, 169-170)
CreateFails(w) ==
  /\ wpc[w] = "create"
  /\ Completed(wtask[w], NoDriverResult(wtask[w]))
  /\ wpc' = [wpc EXCEPT ![w] = "idle"]
  /\ wtask' = [wtask EXCEPT ![w] = NoTask]
  /\ UNCHANGED <<max_workers, walked, num_pages, mpc, made, driver_pool, nDrivers,
                 quitted, workq, wdrv, consumed, all_urls, properties, retval,
                 written, saveCalled>>
  /\ UNCHANGED outsideCollect

\* faulty variant: the finally clause does not give the session back
ReturnDriverNever(pool, drv) == pool

\* faulty variant: the session is put into the pool twice
ReturnDriverTwice(pool, drv) == Append(Append(pool, drv), drv)

\* return_driver, lines 88-91
ReturnDriver(pool, drv) == IF drv # 0 THEN Append(pool, drv) ELSE pool

\* the rest of a call that holds a session: the page is loaded and read
\* (res), the session goes back to the pool in the finally clause, the
\* future is done
FinishTask(w, res) ==
  /\ wpc[w] = "run"
  /\ driver_pool' = ReturnDriver(driver_pool, wdrv[w])
  /\ Completed(wtask[w], res)
  /\ wdrv' = [wdrv EXCEPT ![w] = 0]
  /\ wpc' = [wpc EXCEPT ![w] = "idle"]
  /\ wtask' = [wtask EXCEPT ![w] = NoTask]
  /\ UNCHANGED <<max_workers, walked, num_pages, mpc, made, nDrivers, quitted, workq,
                 consumed, all_urls, properties, retval, written, saveCalled>>
  /\ UNCHANGED outsideCollect

\* extract_urls_from_page, lines 109-163
FinishPage(w) ==
  /\ wtask[w].kind = "page"
  /\ \E urls \in PageLists : FinishTask(w, urls)

\* extract_property_details, lines 196-308
FinishDetail(w) ==
  /\ wtask[w].kind = "url"
  /\ \E content \in PageContents :
       FinishTask(w, Kind(extract_property_details("fastscrap3", TRUE, content)))

\* the steps of a run that nothing cuts short
CollectSteps ==
  \/ \E ok \in BOOLEAN : InitCreate(ok)
  \/ SubmitPages
  \/ ConsumePage
  \/ NoUrlsFound
  \/ SubmitUrls
  \/ ConsumeDetail
  \/ EndStep2
  \/ \E ok \in BOOLEAN : SaveStep(ok)
  \/ CloseAllDrivers
  \/ \E w \in WorkerIds : TakeTask(w)
  \/ \E w \in WorkerIds : CheckPool(w)
  \/ \E w \in WorkerIds : GetFromPool(w)
  \/ \E w \in WorkerIds : CreateDriver(w)
  \/ \E w \in WorkerIds : CreateFails(w)
  \/ \E w \in WorkerIds : FinishPage(w)
  \/ \E w \in WorkerIds : FinishDetail(w)

CollectNext ==
  \/ CollectSteps
  \/ CriticalError
  \/ KeyboardInterrupt
  \/ ShutdownDone

(***************************************************************************)
(* Part III.  main and scrape_page of web2.py (lines 191-301, 403-481) and *)
(* of webscrap1.py (lines 219-317, 377-446).  A batch of records is        *)
(* modelled by the number of the page it came from.                        *)
(***************************************************************************)
Scripts == {"web2", "webscrap1"}

\* MAX_RETRIES: web2.py line 21, webscrap1.py line 21
MAX_RETRIES(s) == IF s = "web2" THEN 2 ELSE 3

\* save_debug_info is defined in webscrap1.py (line 320), where it catches
\* its own exceptions; web2.py calls it (lines 254, 295) and neither defines
\* nor imports it, so the call raises NameError
HasDebugInfo(s) == s = "webscrap1"

\* the positions whose statements stand in a bare `except:` clause, which
\* takes a KeyboardInterrupt as it takes any exception: the listing loops
\* of extract_property_data (web2 lines 113-177) and extract_project_data
\* (webscrap1 lines 141-210), the filter of web2 lines 232-238, the
\* verification of web2 lines 453-457
SwallowsAt(s, pos) ==
  \/ pos = "extract"
  \/ s = "web2" /\ pos \in {"load", "verify"}

\* the positions with statements outside every bare `except:` clause
PropagatesAt(s, pos) ==
  pos \in {"build", "load", "nolistings", "handler", "extract", "save"}

MainInit ==
  /\ script \in Scripts
  /\ total_pages \in 1..MaxTotalPages
  /\ rpc = "build"
  /\ page = 1
  /\ attempt = 1
  /\ all_properties = <<>>
  /\ saves = <<>>
  /\ driver = "none"
  /\ raised = "none"
  /\ kbd = "none"
  /\ kbdHad = <<>>

\* web2 line 434, webscrap1 line 396: build_driver returns a session or
\* raises, which main's `except Exception` takes
BuildDriver(ok) ==
  /\ rpc = "build"
  /\ driver' = IF ok THEN "open" ELSE "none"
  /\ rpc' = IF ok THEN "load" ELSE "finally"
  /\ UNCHANGED <<script, total_pages, page, attempt, all_properties, saves,
                 raised, kbd, kbdHad>>
  /\ UNCHANGED outsideMain

\* scrape_page returns data to the loop of main (web2 lines 437-447,
\* webscrap1 lines 400-413)
PageReturns(hasData) ==
  /\ all_properties' = IF hasData THEN Append(all_properties, page)
                       ELSE all_properties
  /\ IF page = 1 /\ ~hasData
     THEN rpc' = "save" /\ UNCHANGED page
     ELSE IF page < total_pages
          THEN rpc' = "load" /\ page' = page + 1
          ELSE rpc' = "save" /\ UNCHANGED page
  /\ attempt' = 1

\* `continue` or the end of the body of the loop over the attempts; after
\* the last attempt scrape_page returns []
NextAttempt ==
  IF attempt < MAX_RETRIES(script)
  THEN /\ attempt' = attempt + 1
       /\ rpc' = "load"
       /\ UNCHANGED <<page, all_properties>>
  ELSE PageReturns(FALSE)

\* web2 lines 205-251, webscrap1 lines 230-267: the page is loaded and
\* listings are found
LoadFinds ==
  /\ rpc = "load"
  /\ rpc' = "extract"
  /\ UNCHANGED <<script, total_pages, page, attempt, all_properties, saves,
                 driver, raised, kbd, kbdHad>>
  /\ UNCHANGED outsideMain

\* web2 line 252, webscrap1 line 269: no selector found listings
LoadNoListings ==
  /\ rpc = "load"
  /\ rpc' = "nolistings"
  /\ UNCHANGED <<script, total_pages, page, attempt, all_properties, saves,
                 driver, raised, kbd, kbdHad>>
  /\ UNCHANGED outsideMain

\* web2 line 293, webscrap1 line 309: driver.get or a later statement of
\* the try block raised
LoadRaises ==
  /\ rpc = "load"
  /\ rpc' = "handler"
  /\ UNCHANGED <<script, total_pages, page, attempt, all_properties, saves,
                 driver, raised, kbd, kbdHad>>
  /\ UNCHANGED outsideMain

\* web2 lines 253-261, webscrap1 lines 270-281: save_debug_info, then the
\* next attempt or `return []`; the NameError of web2 is raised inside the
\* try block and enters the handler of line 293
DebugAfterNoListings ==
  /\ rpc = "nolistings"
  /\ IF HasDebugInfo(script)
     THEN NextAttempt
     ELSE rpc' = "handler" /\ UNCHANGED <<page, attempt, all_properties>>
  /\ UNCHANGED <<script, total_pages, saves, driver, raised, kbd, kbdHad>>
  /\ UNCHANGED outsideMain

\* web2 lines 294-298, webscrap1 lines 310-314: the handler calls
\* save_debug_info; the NameError of web2 is raised inside the handler,
\* leaves scrape_page and is taken by main's `except Exception` (line 467)
DebugInHandler ==
  /\ rpc = "handler"
  /\ IF HasDebugInfo(script)
     THEN NextAttempt /\ UNCHANGED raised
     ELSE /\ raised' = "NameError"
          /\ rpc' = "finally"
          /\ UNCHANGED <<page, attempt, all_properties>>
  /\ UNCHANGED <<script, total_pages, saves, driver, kbd, kbdHad>>
  /\ UNCHANGED outsideMain

\* web2 lines 264-286, webscrap1 lines 284-302: records were extracted
ExtractSome ==
  /\ rpc = "extract"
  /\ PageReturns(TRUE)
  /\ UNCHANGED <<script, total_pages, saves, driver, raised, kbd, kbdHad>>
  /\ UNCHANGED outsideMain

\* web2 lines 287-291, webscrap1 lines 303-307: no listing gave a record
ExtractNone ==
  /\ rpc = "extract"
  /\ NextAttempt
  /\ UNCHANGED <<script, total_pages, saves, driver, raised, kbd, kbdHad>>
  /\ UNCHANGED outsideMain

\* web2 lines 449-459, webscrap1 lines 416-423
SaveResults ==
  /\ rpc = "save"
  /\ IF all_properties # <<>>
     THEN /\ saves' = Append(saves, all_properties)
          /\ rpc' = IF script = "web2" THEN "verify" ELSE "finally"
     ELSE /\ rpc' = "finally"
          /\ UNCHANGED saves
  /\ UNCHANGED <<script, total_pages, page, attempt, all_properties, driver,
                 raised, kbd, kbdHad>>
  /\ UNCHANGED outsideMain

\* web2 lines 453-457: the file is read again for the log
Verify ==
  /\ rpc = "verify"
  /\ rpc' = "finally"
  /\ UNCHANGED <<script, total_pages, page, attempt, all_properties, saves,
                 driver, raised, kbd, kbdHad>>
  /\ UNCHANGED outsideMain

\* Ctrl-C while a statement outside every bare `except:` runs: the
\* KeyboardInterrupt passes the `except Exception` clauses and reaches the
\* clause of web2 line 462, webscrap1 line 425
InterruptPropagates ==
  /\ kbd = "none"
  /\ PropagatesAt(script, rpc)
  /\ kbd' = "caught"
  /\ kbdHad' = all_properties
  /\ rpc' = "interrupted"
  /\ UNCHANGED <<script, total_pages, page, attempt, all_properties, saves,
                 driver, raised>>
  /\ UNCHANGED outsideMain

\* Ctrl-C while a statement inside a bare `except:` runs: the clause takes
\* the KeyboardInterrupt and the run goes on
InterruptSwallowed ==
  /\ kbd = "none"
  /\ SwallowsAt(script, rpc)
  /\ kbd' = "swallowed"
  /\ kbdHad' = all_properties
  /\ UNCHANGED <<script, total_pages, rpc, page, attempt, all_properties,
                 saves, driver, raised>>
  /\ UNCHANGED outsideMain

\* web2 lines 462-465, webscrap1 lines 425-430
InterruptHandler ==
  /\ rpc = "interrupted"
  /\ saves' = IF all_properties # <<>> THEN Append(saves, all_properties)
              ELSE saves
  /\ rpc' = "finally"
  /\ UNCHANGED <<script, total_pages, page, attempt, all_properties, driver,
                 raised, kbd, kbdHad>>
  /\ UNCHANGED outsideMain

\* web2 lines 470-477, webscrap1 lines 435-442
Finally ==
  /\ rpc = "finally"
  /\ driver' = IF driver = "open" THEN "quit" ELSE driver
  /\ rpc' = "exit"
  /\ UNCHANGED <<script, total_pages, page, attempt, all_properties, saves,
                 raised, kbd, kbdHad>>
  /\ UNCHANGED outsideMain

MainNext ==
  \/ \E ok \in BOOLEAN : BuildDriver(ok)
  \/ LoadFinds
  \/ LoadNoListings
  \/ LoadRaises
  \/ DebugAfterNoListings
  \/ DebugInHandler
  \/ ExtractSome
  \/ ExtractNone
  \/ SaveResults
  \/ Verify
  \/ InterruptPropagates
  \/ InterruptSwallowed
  \/ InterruptHandler
  \/ Finally

(***************************************************************************)
(* Part V.  webscrap2.py, _get_page_source_with_retries, lines 139-168.    *)
(***************************************************************************)
\* 2 ** attempt + random.uniform(0.5, 1.5) of line 167, in tenths of a
\* second, with the two ends of the random part
Jitters == {5, 15}

RECURSIVE Pow2(_)
Pow2(n) == IF n = 0 THEN 1 ELSE 2 * Pow2(n - 1)

Backoff(a, jitter) == 10 * Pow2(a) + jitter

\* faulty variant: the handler never takes an attempt for the last
IsLastAttemptNever(a, retries) == FALSE

\* `if attempt == retries` of line 163
IsLastAttempt(a, retries) == a = retries

NoResult == [is |-> "running", attempt |-> 0]
NoneResult == [is |-> "None", attempt |-> 0]
\* the page_source read in attempt a
PageSource(a) == [is |-> "page_source", attempt |-> a]

FetchInit ==
  /\ f_retries \in 0..MaxRetries
  /\ f_attempt = 0
  /\ f_pc = "loop"
  /\ f_loads = 0
  /\ f_failed = 0
  /\ f_sleeps = <<>>
  /\ f_result = NoResult

\* line 141: the next value of range(1, retries + 1); line 168 when there
\* is none
LoopNext ==
  /\ f_pc = "loop"
  /\ IF f_attempt < f_retries
     THEN /\ f_attempt' = f_attempt + 1
          /\ f_pc' = "get"
          /\ UNCHANGED f_result
     ELSE /\ f_result' = NoneResult
          /\ f_pc' = "returned"
          /\ UNCHANGED f_attempt
  /\ UNCHANGED <<f_retries, f_loads, f_failed, f_sleeps>>
  /\ UNCHANGED outsideFetch

\* line 144: self.driver.get(url) returns, or raises into line 160
Get(ok) ==
  /\ f_pc = "get"
  /\ f_loads' = f_loads + 1
  /\ f_pc' = IF ok THEN "scroll" ELSE "except"
  /\ UNCHANGED <<f_retries, f_attempt, f_failed, f_sleeps, f_result>>
  /\ UNCHANGED outsideFetch

\* lines 146-151: the waits, the scrolling and the read of page_source
Scroll(ok) ==
  /\ f_pc = "scroll"
  /\ f_pc' = IF ok THEN "debug" ELSE "except"
  /\ UNCHANGED <<f_retries, f_attempt, f_loads, f_failed, f_sleeps, f_result>>
  /\ UNCHANGED outsideFetch

\* lines 154-158: the debug file is written and page_source returned, or
\* writing raises into line 160
DebugDump(ok) ==
  /\ f_pc = "debug"
  /\ IF ok
     THEN f_result' = PageSource(f_attempt) /\ f_pc' = "returned"
     ELSE f_pc' = "except" /\ UNCHANGED f_result
  /\ UNCHANGED <<f_retries, f_attempt, f_loads, f_failed, f_sleeps>>
  /\ UNCHANGED outsideFetch

\* lines 160-165: the handler returns None after the last attempt
Except ==
  /\ f_pc = "except"
  /\ f_failed' = f_failed + 1
  /\ IF IsLastAttempt(f_attempt, f_retries)
     THEN f_result' = NoneResult /\ f_pc' = "returned"
     ELSE f_pc' = "backoff" /\ UNCHANGED f_result
  /\ UNCHANGED <<f_retries, f_attempt, f_loads, f_sleeps>>
  /\ UNCHANGED outsideFetch

\* line 167: the backoff before the next attempt
Sleep(jitter) ==
  /\ f_pc = "backoff"
  /\ f_sleeps' = Append(f_sleeps, Backoff(f_attempt, jitter))
  /\ f_pc' = "loop"
  /\ UNCHANGED <<f_retries, f_attempt, f_loads, f_failed, f_result>>
  /\ UNCHANGED outsideFetch

FetchNext ==
  \/ LoopNext
  \/ \E ok \in BOOLEAN : Get(ok)
  \/ \E ok \in BOOLEAN : Scroll(ok)
  \/ \E ok \in BOOLEAN : DebugDump(ok)
  \/ Except
  \/ \E jitter \in Jitters : Sleep(jitter)

(***************************************************************************)
(* Part VI.  scrape_all of webscrap2.py (lines 353-400) and webscrap3.py   *)
(* (lines 291-345): one session, the pages and the URLs in turn.           *)
(***************************************************************************)
SeqScripts == {"webscrap2", "webscrap3"}

\* range(20, num_pages + 1): webscrap2 line 364, webscrap3 line 306
SeqFirstPage == 20

\* webscrap2 line 370 removes the duplicates of all_urls; webscrap3 keeps
\* the list as it is
Dedup(s, urls) == IF s = "webscrap2" THEN FromKeys(urls, {}) ELSE urls

SeqInit ==
  /\ q_script \in SeqScripts
  /\ q_num_pages \in (SeqFirstPage - 1)..(SeqFirstPage - 1 + MaxPages)
  /\ q_pc = "init"
  /\ q_page = SeqFirstPage
  /\ q_all_urls = <<>>
  /\ q_idx = 1
  /\ q_properties = <<>>
  /\ q_retval = "none"
  /\ q_written = FALSE
  /\ q_saveCalled = FALSE
  /\ q_driver = "none"

\* webscrap2 lines 354-355, webscrap3 lines 293-294
SeqInitDriver(ok) ==
  /\ q_pc = "init"
  /\ IF ok
     THEN q_driver' = "open" /\ q_pc' = "step1" /\ UNCHANGED q_retval
     ELSE q_retval' = "False" /\ q_pc' = "returned" /\ UNCHANGED q_driver
  /\ UNCHANGED <<q_script, q_num_pages, q_page, q_all_urls, q_idx,
                 q_properties, q_written, q_saveCalled>>
  /\ UNCHANGED outsideSeq

\* webscrap2 lines 364-368, webscrap3 lines 306-311: one listing page;
\* extract_urls_from_page returns its URLs, [] when it failed
SeqPage(urls) ==
  /\ q_pc = "step1" /\ q_page <= q_num_pages
  /\ q_all_urls' = q_all_urls \o urls
  /\ q_page' = q_page + 1
  /\ UNCHANGED <<q_script, q_num_pages, q_pc, q_idx, q_properties, q_retval,
                 q_written, q_saveCalled, q_driver>>
  /\ UNCHANGED outsideSeq

\* webscrap2 lines 370-373, webscrap3 lines 313-315
SeqNoUrls ==
  /\ q_pc = "step1" /\ q_page > q_num_pages
  /\ Dedup(q_script, q_all_urls) = <<>>
  /\ q_retval' = "False"
  /\ q_pc' = "finally"
  /\ UNCHANGED <<q_script, q_num_pages, q_page, q_all_urls, q_idx,
                 q_properties, q_written, q_saveCalled, q_driver>>
  /\ UNCHANGED outsideSeq

\* webscrap2 lines 370-380, webscrap3 lines 313-324
SeqStartDetails ==
  /\ q_pc = "step1" /\ q_page > q_num_pages
  /\ Dedup(q_script, q_all_urls) # <<>>
  /\ q_all_urls' = Dedup(q_script, q_all_urls)
  /\ q_idx' = 1
  /\ q_pc' = "step2"
  /\ UNCHANGED <<q_script, q_num_pages, q_page, q_properties, q_retval,
                 q_written, q_saveCalled, q_driver>>
  /\ UNCHANGED outsideSeq

\* webscrap2 lines 380-386, webscrap3 lines 324-331: one detail page
SeqDetail ==
  /\ q_pc = "step2" /\ q_idx <= Len(q_all_urls)
  /\ \E available \in BOOLEAN, content \in PageContents :
       q_properties' =
         Accumulate(q_properties, q_all_urls[q_idx],
                    Kind(extract_property_details(q_script, available, content)))
  /\ q_idx' = q_idx + 1
  /\ UNCHANGED <<q_script, q_num_pages, q_pc, q_page, q_all_urls, q_retval,
                 q_written, q_saveCalled, q_driver>>
  /\ UNCHANGED outsideSeq

\* webscrap2 lines 389-394 with save_to_csv (lines 331-351), webscrap3
\* lines 334-339 with save_to_csv (lines 347-376): save_to_csv catches its
\* own exceptions and returns nothing
SeqSave(ok) ==
  /\ q_pc = "step2" /\ q_idx > Len(q_all_urls)
  /\ IF HasRecords(q_properties)
     THEN /\ q_written' = ok
          /\ q_saveCalled' = TRUE
          /\ q_retval' = "True"
     ELSE /\ q_written' = FALSE
          /\ q_saveCalled' = FALSE
          /\ q_retval' = "False"
  /\ q_pc' = "finally"
  /\ UNCHANGED <<q_script, q_num_pages, q_page, q_all_urls, q_idx,
                 q_properties, q_driver>>
  /\ UNCHANGED outsideSeq

\* webscrap2 lines 396-398, webscrap3 lines 341-343: an exception outside
\* the try blocks of the extraction (e.g. BeautifulSoup failing in webscrap2
\* line 184) is logged as a critical error
SeqCriticalError ==
  /\ q_pc \in {"step1", "step2"}
  /\ q_retval' = "False"
  /\ q_pc' = "finally"
  /\ UNCHANGED <<q_script, q_num_pages, q_page, q_all_urls, q_idx,
                 q_properties, q_written, q_saveCalled, q_driver>>
  /\ UNCHANGED outsideSeq

\* webscrap2 lines 399-400 with close_driver (lines 131-137), webscrap3
\* lines 344-345 with close_driver (lines 68-75)
SeqClose ==
  /\ q_pc = "finally"
  /\ q_driver' = IF q_driver = "open" THEN "quit" ELSE q_driver
  /\ q_pc' = "returned"
  /\ UNCHANGED <<q_script, q_num_pages, q_page, q_all_urls, q_idx,
                 q_properties, q_retval, q_written, q_saveCalled>>
  /\ UNCHANGED outsideSeq

SeqNext ==
  \/ \E ok \in BOOLEAN : SeqInitDriver(ok)
  \/ \E urls \in PageLists : SeqPage(urls)
  \/ SeqNoUrls
  \/ SeqStartDetails
  \/ SeqDetail
  \/ \E ok \in BOOLEAN : SeqSave(ok)
  \/ SeqCriticalError
  \/ SeqClose

(***************************************************************************)
(* Part VII.  fastscrap3.py: one call of extract_urls_from_page (lines     *)
(* 102-163) or of extract_property_details (lines 165-308), step by step.  *)
(***************************************************************************)
CallKinds == {"page", "url"}

\* the driver_pool a call can meet: empty, or holding sessions
InitialPools == {<<>>, <<1>>, <<1, 2>>}

\* the session create_driver makes for a call that met an empty pool
NewSession == MaxWorkers + 1

\* what a call returns from its try block, and from its except clause or
\* without a session
CallGives(kind) == IF kind = "page" THEN "urls" ELSE "dict"
CallGivesUp(kind) == IF kind = "page" THEN "empty" ELSE "None"

CallInit ==
  /\ c_kind \in CallKinds
  /\ c_pool \in InitialPools
  /\ c_pc = "get_driver"
  /\ c_driver = 0
  /\ c_loads = 0
  /\ c_waited = "none"
  /\ c_failedAt = "none"
  /\ c_result = "running"

\* lines 105, 168 with get_driver, lines 84-85: the pool holds a session
CallGetsPooled ==
  /\ c_pc = "get_driver"
  /\ PoolChoice(c_pool) = "get"
  /\ c_driver' = Head(c_pool)
  /\ c_pool' = PoolAfterGet(c_pool)
  /\ c_pc' = "load"
  /\ UNCHANGED <<c_kind, c_loads, c_waited, c_failedAt, c_result>>
  /\ UNCHANGED outsideCall

\* lines 105-107, 168-170 with get_driver, line 86: the pool is empty and
\* create_driver gives a session, or None and the call returns at once
CallCreates(ok) ==
  /\ c_pc = "get_driver"
  /\ PoolChoice(c_pool) = "create"
  /\ IF ok
     THEN /\ c_driver' = NewSession
          /\ c_pc' = "load"
          /\ UNCHANGED c_result
     ELSE /\ c_result' = CallGivesUp(c_kind)
          /\ c_pc' = "returned"
          /\ UNCHANGED c_driver
  /\ UNCHANGED <<c_kind, c_pool, c_loads, c_waited, c_failedAt>>
  /\ UNCHANGED outsideCall

\* a step of the try block raises into the except clause (lines 159, 304)
RaisesAt(step) ==
  /\ c_failedAt' = step
  /\ c_pc' = "except"

\* lines 117, 197: driver.get(url)
Navigate(ok) ==
  /\ c_pc = "load"
  /\ c_loads' = c_loads + 1
  /\ IF ok
     THEN c_pc' = "wait" /\ UNCHANGED c_failedAt
     ELSE RaisesAt("load")
  /\ UNCHANGED <<c_kind, c_pool, c_driver, c_waited, c_result>>
  /\ UNCHANGED outsideCall

\* lines 120-125, 200-205: the wait for an element; its timeout is taken by
\* the bare except and the call goes on
ReadinessWait(found) ==
  /\ c_pc = "wait"
  /\ c_waited' = IF found THEN "found" ELSE "timeout"
  /\ c_pc' = "scroll"
  /\ UNCHANGED <<c_kind, c_pool, c_driver, c_loads, c_failedAt, c_result>>
  /\ UNCHANGED outsideCall

\* lines 128-130, 208-210: the scroll steps
CallScrolls(ok) ==
  /\ c_pc = "scroll"
  /\ IF ok
     THEN c_pc' = "parse" /\ UNCHANGED c_failedAt
     ELSE RaisesAt("scroll")
  /\ UNCHANGED <<c_kind, c_pool, c_driver, c_loads, c_waited, c_result>>
  /\ UNCHANGED outsideCall

\* lines 132-157, 212-302: the page source is read and parsed, and the call
\* returns what it found
CallParses(ok) ==
  /\ c_pc = "parse"
  /\ IF ok
     THEN /\ c_result' = CallGives(c_kind)
          /\ c_pc' = "finally"
          /\ UNCHANGED c_failedAt
     ELSE RaisesAt("parse") /\ UNCHANGED c_result
  /\ UNCHANGED <<c_kind, c_pool, c_driver, c_loads, c_waited>>
  /\ UNCHANGED outsideCall

\* lines 159-161, 304-306: the except clause logs and returns [] or None;
\* nothing is loaded again
CallExcept ==
  /\ c_pc = "except"
  /\ c_result' = CallGivesUp(c_kind)
  /\ c_pc' = "finally"
  /\ UNCHANGED <<c_kind, c_pool, c_driver, c_loads, c_waited, c_failedAt>>
  /\ UNCHANGED outsideCall

\* lines 162-163, 307-308: the finally clause calls return_driver
CallFinally ==
  /\ c_pc = "finally"
  /\ c_pool' = ReturnDriver(c_pool, c_driver)
  /\ c_pc' = "returned"
  /\ UNCHANGED <<c_kind, c_driver, c_loads, c_waited, c_failedAt, c_result>>
  /\ UNCHANGED outsideCall

CallNext ==
  \/ CallGetsPooled
  \/ \E ok \in BOOLEAN : CallCreates(ok)
  \/ \E ok \in BOOLEAN : Navigate(ok)
  \/ \E found \in BOOLEAN : ReadinessWait(found)
  \/ \E ok \in BOOLEAN : CallScrolls(ok)
  \/ \E ok \in BOOLEAN : CallParses(ok)
  \/ CallExcept
  \/ CallFinally

(***************************************************************************)
(* Part VIII.  The hyperlinks of a listing page: extract_urls_from_page of *)
(* fastscrap3.py (lines 135-157), webscrap2.py (lines 183-205) and         *)
(* webscrap3.py (lines 110-144).                                           *)
(***************************************************************************)
\* An href is told by how it starts ("http", "/" or anything else), by the
\* path it names on the site, and by what the tests of the loop see in it:
\* a property link (one of the words bhk, bedroom, independent, flat,
\* apartment and "spid-"), such a link with "/search/" in it, or another link.
HrefForms == {"http", "slash", "bare"}
LinkPaths == {"p1", "p2"}

Href(form, path, kind) == [form |-> form, path |-> path, kind |-> kind]

Hrefs ==
  {Href(form, path, "property") : form \in HrefForms, path \in LinkPaths}
    \cup {Href("slash", "p1", "search"), Href("slash", "p2", "other")}

\* fastscrap3 lines 144-146: the words of a property link
LooksLikeProperty(h) == h.kind \in {"property", "search"}

\* fastscrap3 lines 148-149: base_url is put before an href that does not
\* start with http, with a "/" between when the href has none
Absolute(h) ==
  IF h.form # "http" THEN Href("http", h.path, h.kind) ELSE h

\* fastscrap3 line 151: '/search/' not in href
NotSearch(h) == h.kind # "search"

\* fastscrap3 line 151 and webscrap3 line 137 append only an href that is
\* not in the list; webscrap2 line 199 appends every one
ChecksList(s) == s \in {"fastscrap3", "webscrap3"}

\* the loop over all_links, from link i on
RECURSIVE LinkLoop(_, _, _, _)
LinkLoop(s, links, i, property_urls) ==
  IF i > Len(links) THEN property_urls
  ELSE LET href == Absolute(links[i])
           take == /\ LooksLikeProperty(links[i])
                   /\ NotSearch(href)
                   /\ ~(ChecksList(s) /\ href \in Range(property_urls))
       IN LinkLoop(s, links, i + 1,
                   IF take THEN Append(property_urls, href) ELSE property_urls)

\* the list the call returns: the loop, then list(dict.fromkeys(...))
PropertyUrls(s, links) == FromKeys(LinkLoop(s, links, 1, <<>>), {})

LinkInit ==
  /\ l_script \in Extractors
  /\ l_links \in SeqsUpTo(Hrefs, MaxLinks)
  /\ l_urls = <<>>
  /\ l_pc = "page"

\* fastscrap3 lines 135-157, webscrap2 lines 183-205, webscrap3 lines 110-144
ReadLinks ==
  /\ l_pc = "page"
  /\ l_urls' = PropertyUrls(l_script, l_links)
  /\ l_pc' = "returned"
  /\ UNCHANGED <<l_script, l_links>>
  /\ UNCHANGED outsideLink

LinkNext == ReadLinks

(***************************************************************************)
(* Part IX.  save_to_csv of fastscrap3.py (lines 397-426), webscrap2.py    *)
(* (lines 331-351) and webscrap3.py (lines 347-376).                       *)
(***************************************************************************)
\* the keys of a property_data dict (fastscrap3 lines 172-194): the title,
\* the URL, the date and the optional fields
DictKeys == {"Property_Title", "Property_URL", "Scraped_Date"} \cup OptionalFields

\* a property_data dict by its keys
PropertyDict(rec) ==
  [k \in DictKeys |->
     CASE k = "Property_Title" -> rec.title
       [] k = "Property_URL" -> rec.url
       [] k = "Scraped_Date" -> rec.date
       [] OTHER -> rec.opt[k]]

\* the dicts extract_property_details can return
PropertyDicts ==
  {PropertyDict(Extracted(content)) :
     content \in {pc0 \in PageContents : pc0.raisesAt = "none"}}

\* the list `columns`: fastscrap3 lines 402-408 end with "Property_URL",
\* webscrap2 lines 334-340 and webscrap3 lines 352-358 do not name it
Columns(s) ==
  IF s = "fastscrap3"
  THEN <<"Property_Title", "Location", "Price", "Scraped_Date", "Property_URL">>
  ELSE <<"Property_Title", "Location", "Price", "Scraped_Date">>

\* pd.DataFrame(self.properties): the columns are the keys of the dicts
DataFrame(props) ==
  [columns |-> UNION {DOMAIN props[i] : i \in 1..Len(props)},
   rows |-> props]

\* `if col not in df.columns: df[col] = "N/A"` for every col of columns
WithMissing(df, columns) ==
  [columns |-> df.columns \cup Range(columns),
   rows |-> [i \in 1..Len(df.rows) |->
               [c \in df.columns \cup Range(columns) |->
                  IF c \in df.columns THEN df.rows[i][c] ELSE NA]]]

\* df[columns]: the named columns, in the order of the list
Select(df, columns) ==
  [columns |-> columns,
   rows |-> [i \in 1..Len(df.rows) |->
               [c \in Range(columns) |-> df.rows[i][c]]]]

\* df.to_csv(filename, index=False): the header and one line per row
TableCsv(df) ==
  [exists |-> TRUE,
   columns |-> df.columns,
   rows |-> [i \in 1..Len(df.rows) |->
               [c \in Range(df.columns) |-> ToCsvCell(df.rows[i][c])]]]

NoTable == [exists |-> FALSE, columns |-> <<>>, rows |-> <<>>]

TableInit ==
  /\ t_script \in Extractors
  /\ t_properties \in SeqsUpTo(PropertyDicts, MaxRows) \ {<<>>}
  /\ t_file = NoTable
  /\ t_pc = "call"

\* save_to_csv: the frame is built, completed, cut to `columns` and
\* written; an exception (e.g. of to_csv) is logged
WriteTable(ok) ==
  /\ t_pc = "call"
  /\ IF ok
     THEN /\ t_file' = TableCsv(Select(WithMissing(DataFrame(t_properties),
                                                   Columns(t_script)),
                                       Columns(t_script)))
          /\ t_pc' = "saved"
     ELSE /\ t_pc' = "failed"
          /\ UNCHANGED t_file
  /\ UNCHANGED <<t_script, t_properties>>
  /\ UNCHANGED outsideTable

TableNext == \E ok \in BOOLEAN : WriteTable(ok)

(***************************************************************************)
(* Part X.  The scroll loops: scroll_page_gradually of web2.py (lines      *)
(* 72-94) and of webscrap1.py (lines 82-113), and the loop of              *)
(* extract_urls_from_page of fastscrap3.py (lines 128-130).  The page may  *)
(* load more content, and grow, each time it is scrolled.                  *)
(***************************************************************************)
Scrollers == {"web2", "webscrap1", "fastscrap3"}

\* webscrap1 line 92
scroll_step == 300

\* the heights a page starts with, and what a scroll can add to it
PageHeights == {scroll_step * k : k \in 1..MaxScreens}
Growths == {0, scroll_step, 2 * scroll_step}

\* the page does not grow beyond this height
MaxHeight == scroll_step * (MaxScreens + 2)

\* range(4) of web2 line 79, range(3) of fastscrap3 line 128
ScrollRange(s) == IF s = "web2" THEN 4 ELSE 3

ScrollInit ==
  /\ s_script \in Scrollers
  /\ s_pc = "start"
  /\ s_scrollHeight \in PageHeights
  /\ s_i = 0
  /\ current_position = 0
  /\ total_height = 0
  /\ s_raised = FALSE

\* web2 line 77, webscrap1 lines 88-92: the height is read before the loop
ReadHeight ==
  /\ s_pc = "start"
  /\ total_height' = IF s_script = "fastscrap3" THEN 0 ELSE s_scrollHeight
  /\ s_pc' = "loop"
  /\ UNCHANGED <<s_script, s_scrollHeight, s_i, current_position, s_raised>>
  /\ UNCHANGED outsideScroll

\* web2 lines 79-86: one turn of `for i in range(4)`; the loop is left when
\* the height has not changed
Web2Step(grow) ==
  /\ s_pc = "loop" /\ s_script = "web2"
  /\ s_i < ScrollRange(s_script)
  /\ s_scrollHeight + grow <= MaxHeight
  /\ s_scrollHeight' = s_scrollHeight + grow
  /\ s_i' = s_i + 1
  /\ IF s_scrollHeight' = total_height
     THEN s_pc' = "done" /\ UNCHANGED total_height
     ELSE total_height' = s_scrollHeight' /\ UNCHANGED s_pc
  /\ UNCHANGED <<s_script, current_position, s_raised>>
  /\ UNCHANGED outsideScroll

\* webscrap1 lines 94-104: one turn of
\* `while current_position < total_height`
W1Step(grow) ==
  /\ s_pc = "loop" /\ s_script = "webscrap1"
  /\ current_position < total_height
  /\ s_scrollHeight + grow <= MaxHeight
  /\ s_scrollHeight' = s_scrollHeight + grow
  /\ s_i' = s_i + 1
  /\ current_position' = current_position + scroll_step
  /\ total_height' = IF s_scrollHeight' > total_height
                     THEN s_scrollHeight' ELSE total_height
  /\ UNCHANGED <<s_script, s_pc, s_raised>>
  /\ UNCHANGED outsideScroll

\* fastscrap3 lines 128-130: one turn of `for i in range(3)`
FastStep(grow) ==
  /\ s_pc = "loop" /\ s_script = "fastscrap3"
  /\ s_i < ScrollRange(s_script)
  /\ s_scrollHeight + grow <= MaxHeight
  /\ s_scrollHeight' = s_scrollHeight + grow
  /\ s_i' = s_i + 1
  /\ UNCHANGED <<s_script, s_pc, current_position, total_height, s_raised>>
  /\ UNCHANGED outsideScroll

\* whether the loop has no further turn
LoopOver ==
  IF s_script = "webscrap1" THEN current_position >= total_height
  ELSE s_i >= ScrollRange(s_script)

\* web2 lines 88-91, webscrap1 lines 107-110, fastscrap3 line 132: the
\* statements after the loop
EndScroll ==
  /\ s_pc = "loop"
  /\ LoopOver
  /\ s_pc' = "done"
  /\ UNCHANGED <<s_script, s_scrollHeight, s_i, current_position,
                 total_height, s_raised>>
  /\ UNCHANGED outsideScroll

\* execute_script raises: web2 lines 93-94 and webscrap1 lines 112-113 log
\* a warning and return, in fastscrap3 the exception goes to line 159
ScrollRaises ==
  /\ s_pc \in {"start", "loop"}
  /\ s_raised' = TRUE
  /\ s_pc' = "done"
  /\ UNCHANGED <<s_script, s_scrollHeight, s_i, current_position, total_height>>
  /\ UNCHANGED outsideScroll

ScrollNext ==
  \/ ReadHeight
  \/ \E grow \in Growths : Web2Step(grow)
  \/ \E grow \in Growths : W1Step(grow)
  \/ \E grow \in Growths : FastStep(grow)
  \/ EndScroll
  \/ ScrollRaises

(***************************************************************************)
(* Part XI.  app.py, predict_property_price (lines 144-199).  Of the       *)
(* thirteen numeric features two are modelled.                             *)
(***************************************************************************)
\* lines 181-187: the key of features, the key of label_encoders and the
\* value of each categorical field
EncoderKeys ==
  {"Property_Type", "Location_Clean", "Size_Category", "Bedroom_Category",
   "Furnishing"}

EncodedKey(encoder_key) ==
  CASE encoder_key = "Property_Type" -> "Property_Type_Encoded"
    [] encoder_key = "Location_Clean" -> "Location_Clean_Encoded"
    [] encoder_key = "Size_Category" -> "Size_Category_Encoded"
    [] encoder_key = "Bedroom_Category" -> "Bedroom_Category_Encoded"
    [] encoder_key = "Furnishing" -> "Furnishing_Encoded"

NumericKeys == {"Carpet_Area_Numeric", "Bedrooms"}

FeatureKeys == NumericKeys \cup {EncodedKey(k) : k \in EncoderKeys}

\* lines 166-171
SizeCategory(carpet_area) ==
  IF carpet_area < 500 THEN "Very Small"
  ELSE IF carpet_area < 1000 THEN "Small"
  ELSE IF carpet_area < 1500 THEN "Medium"
  ELSE IF carpet_area < 2500 THEN "Large" ELSE "Very Large"

\* lines 173-178
BedroomCategory(bedrooms) ==
  IF bedrooms <= 1 THEN "1RK/1BHK"
  ELSE IF bedrooms = 2 THEN "2BHK"
  ELSE IF bedrooms = 3 THEN "3BHK"
  ELSE IF bedrooms = 4 THEN "4BHK" ELSE "5BHK+"

\* the value of the field an encoder is asked for
FieldValue(encoder_key, args) ==
  CASE encoder_key = "Property_Type" -> args.property_type
    [] encoder_key = "Location_Clean" -> args.location
    [] encoder_key = "Size_Category" -> SizeCategory(args.carpet_area)
    [] encoder_key = "Bedroom_Category" -> BedroomCategory(args.bedrooms)
    [] encoder_key = "Furnishing" -> args.furnishing

\* the arguments of a call: values the encoders may know and values they
\* cannot know
Arguments ==
  [property_type : {"Villa", "Castle"},
   location : {"Saket", "Mars"},
   furnishing : {"Furnished", "Bare"},
   carpet_area : {400, 1200},
   bedrooms : {1, 3}]

\* a fitted LabelEncoder by its classes_, which are sorted; a key the dict
\* does not have
Encoder(classes) == [is |-> "LabelEncoder", classes_ |-> classes]
NoEncoder == [is |-> "missing", classes_ |-> <<>>]

\* the classes an encoder of label_encoders.pkl may have been fitted on
FittedClasses(encoder_key) ==
  CASE encoder_key = "Property_Type" -> <<"Apartment/Flat", "Villa">>
    [] encoder_key = "Location_Clean" -> <<"Dwarka", "Saket">>
    [] encoder_key = "Size_Category" -> <<"Medium", "Very Small">>
    [] encoder_key = "Bedroom_Category" -> <<"1RK/1BHK", "3BHK">>
    [] encoder_key = "Furnishing" -> <<"Furnished", "Unfurnished">>

EncoderChoices(encoder_key) ==
  {NoEncoder, Encoder(FittedClasses(encoder_key)),
   Encoder(<<FittedClasses(encoder_key)[1]>>)}

\* the result of a statement: a code, or an exception
Code(n) == [is |-> "code", code |-> n]
Exception == [is |-> "raised", code |-> 0]

\* line 189: label_encoders[encoder_key].transform([value])[0] gives the
\* place of value in classes_, counted from 0; a missing key raises
\* KeyError, a value not in classes_ ValueError
Transform(encoders, encoder_key, value) ==
  LET enc == encoders[encoder_key]
  IN IF enc.is = "LabelEncoder"
        /\ \E i \in 1..Len(enc.classes_) : enc.classes_[i] = value
     THEN Code((CHOOSE i \in 1..Len(enc.classes_) : enc.classes_[i] = value) - 1)
     ELSE Exception

\* faulty variant: no try block around line 189
Unhandled(res) == res

\* lines 188-192: `except Exception` sets features[key] = 0
OrDefault(res) == IF res.is = "raised" THEN Code(0) ELSE res

\* the five results of the loop of lines 181-192
EncodedFields(encoders, args) ==
  [k \in EncoderKeys |-> OrDefault(Transform(encoders, k, FieldValue(k, args)))]

\* the dict features after the loop
Features(encoders, args) ==
  [key \in FeatureKeys |->
     CASE key = "Carpet_Area_Numeric" -> args.carpet_area
       [] key = "Bedrooms" -> args.bedrooms
       [] OTHER ->
            EncodedFields(encoders, args)[
              CHOOSE k \in EncoderKeys : EncodedKey(k) = key].code]

\* the lists feature_columns.pkl may hold: names of features the function
\* computes, in the order of training, or also a name it does not compute
ColumnLists ==
  {<<"Carpet_Area_Numeric", "Bedrooms", "Property_Type_Encoded",
     "Location_Clean_Encoded", "Size_Category_Encoded",
     "Bedroom_Category_Encoded", "Furnishing_Encoded">>,
   <<"Location_Clean_Encoded", "Carpet_Area_Numeric", "Furnishing_Encoded">>,
   <<"Carpet_Area_Numeric", "Location_Clean_Encoded", "Price_Per_Sqft">>}

PredictInit ==
  /\ label_encoders \in [EncoderKeys -> UNION {EncoderChoices(k) : k \in EncoderKeys}]
  /\ \A k \in EncoderKeys : label_encoders[k] \in EncoderChoices(k)
  /\ feature_columns \in ColumnLists
  /\ p_args \in Arguments
  /\ features = <<>>
  /\ input_df = <<>>
  /\ p_pc = "call"

\* lines 149-199: the features are computed and encoded, the row of
\* feature_columns is cut out (line 195, a KeyError when features lacks a
\* column) and handed to model.predict; an exception that nothing catches
\* leaves the function
Predict ==
  /\ p_pc = "call"
  /\ IF \E k \in EncoderKeys : EncodedFields(label_encoders, p_args)[k].is = "raised"
     THEN /\ p_pc' = "failed"
          /\ UNCHANGED <<features, input_df>>
     ELSE /\ features' = Features(label_encoders, p_args)
          /\ IF Range(feature_columns) \subseteq DOMAIN features'
             THEN /\ input_df' = [c \in Range(feature_columns) |-> features'[c]]
                  /\ p_pc' = "predicted"
             ELSE /\ p_pc' = "failed"
                  /\ UNCHANGED input_df
  /\ UNCHANGED <<label_encoders, feature_columns, p_args>>
  /\ UNCHANGED outsidePredict

PredictNext == Predict

(***************************************************************************)
(* Specifications.  The parts share no state: each is checked with the     *)
(* others at rest.                                                         *)
(***************************************************************************)
vars ==
  <<saveVars, collectVars, mainVars, extractVars, fetchVars, seqVars,
    callVars, linkVars, scrollVars, tableVars, predictVars>>

\* no PropertyScraper99Acres is running
CollectAtRest ==
  /\ max_workers = 1
  /\ num_pages = FirstPage - 1
  /\ mpc = "returned"
  /\ made = 0
  /\ driver_pool = <<>>
  /\ nDrivers = 0
  /\ quitted = {}
  /\ workq = <<>>
  /\ wpc = [w \in WorkerIds |-> "idle"]
  /\ wtask = [w \in WorkerIds |-> NoTask]
  /\ wdrv = [w \in WorkerIds |-> 0]
  /\ doneq = <<>>
  /\ consumed = 0
  /\ all_urls = <<>>
  /\ properties = <<>>
  /\ returned = [u \in Urls |-> "pending"]
  /\ retval = "none"
  /\ written = FALSE
  /\ saveCalled = FALSE
  /\ walked = <<>>

\* no main of web2 or webscrap1 is running
MainAtRest ==
  /\ script = "none"
  /\ total_pages = 1
  /\ rpc = "exit"
  /\ page = 1
  /\ attempt = 1
  /\ all_properties = <<>>
  /\ saves = <<>>
  /\ driver = "none"
  /\ raised = "none"
  /\ kbd = "none"
  /\ kbdHad = <<>>

\* no extract_property_details is looked into
ExtractAtRest ==
  /\ x_script = "none"
  /\ x_available = FALSE
  /\ x_content = [h1 |-> FALSE, matched |-> {}, raisesAt |-> "none"]
  /\ x_result = NotCalled

\* no _get_page_source_with_retries is looked into
FetchAtRest ==
  /\ f_retries = 0
  /\ f_attempt = 0
  /\ f_pc = "returned"
  /\ f_loads = 0
  /\ f_failed = 0
  /\ f_sleeps = <<>>
  /\ f_result = NoResult

\* no scrape_all of webscrap2 or webscrap3 is running
SeqAtRest ==
  /\ q_script = "none"
  /\ q_num_pages = SeqFirstPage - 1
  /\ q_pc = "returned"
  /\ q_page = SeqFirstPage
  /\ q_all_urls = <<>>
  /\ q_idx = 1
  /\ q_properties = <<>>
  /\ q_retval = "none"
  /\ q_written = FALSE
  /\ q_saveCalled = FALSE
  /\ q_driver = "none"

\* no call of fastscrap3 is looked into
CallAtRest ==
  /\ c_kind = "none"
  /\ c_pool = <<>>
  /\ c_pc = "returned"
  /\ c_driver = 0
  /\ c_loads = 0
  /\ c_waited = "none"
  /\ c_failedAt = "none"
  /\ c_result = "running"

\* no listing page is looked into
LinkAtRest ==
  /\ l_script = "none"
  /\ l_links = <<>>
  /\ l_urls = <<>>
  /\ l_pc = "returned"

\* no save_to_csv of a detail scraper is looked into
TableAtRest ==
  /\ t_script = "none"
  /\ t_properties = <<>>
  /\ t_file = NoTable
  /\ t_pc = "failed"

\* no page is being scrolled
ScrollAtRest ==
  /\ s_script = "none"
  /\ s_pc = "done"
  /\ s_scrollHeight = 0
  /\ s_i = 0
  /\ current_position = 0
  /\ total_height = 0
  /\ s_raised = FALSE

\* no prediction is asked for
PredictAtRest ==
  /\ label_encoders = [k \in EncoderKeys |-> NoEncoder]
  /\ feature_columns = <<>>
  /\ p_args = [property_type |-> "Villa", location |-> "Saket",
               furnishing |-> "Furnished", carpet_area |-> 400, bedrooms |-> 1]
  /\ features = <<>>
  /\ input_df = <<>>
  /\ p_pc = "predicted"

\* web2 and webscrap1 saving, no fastscrap3 run
InitSave ==
  SaveInit /\ CollectAtRest /\ MainAtRest /\ ExtractAtRest /\ FetchAtRest
  /\ SeqAtRest /\ CallAtRest /\ LinkAtRest /\ ScrollAtRest /\ TableAtRest
  /\ PredictAtRest

SpecSave == InitSave /\ [][SaveNext]_vars

\* one fastscrap3 run, data/data.csv untouched
InitCollect ==
  CollectInit /\ SaveInit /\ MainAtRest /\ ExtractAtRest /\ FetchAtRest
  /\ SeqAtRest /\ CallAtRest /\ LinkAtRest /\ ScrollAtRest /\ TableAtRest
  /\ PredictAtRest

SpecCollect == InitCollect /\ [][CollectNext]_vars

\* the steps of one thread of the executor
WorkerSteps(w) ==
  \/ TakeTask(w)
  \/ CheckPool(w)
  \/ GetFromPool(w)
  \/ CreateDriver(w)
  \/ CreateFails(w)
  \/ FinishPage(w)
  \/ FinishDetail(w)

\* one fastscrap3 run whose executor threads keep running: a thread that
\* can take a step takes one, and a page load in progress ends (driver.get
\* is bounded by set_page_load_timeout, line 74, the waits by their own
\* timeouts)
SpecCollectFair ==
  InitCollect /\ [][CollectNext]_vars
    /\ \A w \in WorkerIds : WF_vars(WorkerSteps(w))

\* one run of main of web2 or webscrap1, save_to_csv not looked into
InitMain ==
  MainInit /\ SaveInit /\ CollectAtRest /\ ExtractAtRest /\ FetchAtRest
  /\ SeqAtRest /\ CallAtRest /\ LinkAtRest /\ ScrollAtRest /\ TableAtRest
  /\ PredictAtRest

SpecMain == InitMain /\ [][MainNext]_vars

\* one call of extract_property_details
InitExtract ==
  ExtractInit /\ SaveInit /\ CollectAtRest /\ MainAtRest /\ FetchAtRest
  /\ SeqAtRest /\ CallAtRest /\ LinkAtRest /\ ScrollAtRest /\ TableAtRest
  /\ PredictAtRest

SpecExtract == InitExtract /\ [][ExtractNext]_vars

\* one call of _get_page_source_with_retries
InitFetch ==
  FetchInit /\ SaveInit /\ CollectAtRest /\ MainAtRest /\ ExtractAtRest
  /\ SeqAtRest /\ CallAtRest /\ LinkAtRest /\ ScrollAtRest /\ TableAtRest
  /\ PredictAtRest

SpecFetch == InitFetch /\ [][FetchNext]_vars

\* one call of extract_urls_from_page or extract_property_details of
\* fastscrap3
InitCall ==
  CallInit /\ SaveInit /\ CollectAtRest /\ MainAtRest /\ ExtractAtRest
  /\ FetchAtRest /\ SeqAtRest /\ LinkAtRest /\ ScrollAtRest /\ TableAtRest
  /\ PredictAtRest

SpecCall == InitCall /\ [][CallNext]_vars

\* one listing page read by extract_urls_from_page
InitLink ==
  LinkInit /\ SaveInit /\ CollectAtRest /\ MainAtRest /\ ExtractAtRest
  /\ FetchAtRest /\ SeqAtRest /\ CallAtRest /\ ScrollAtRest /\ TableAtRest
  /\ PredictAtRest

SpecLink == InitLink /\ [][LinkNext]_vars

\* one call of save_to_csv of fastscrap3, webscrap2 or webscrap3
InitTable ==
  TableInit /\ SaveInit /\ CollectAtRest /\ MainAtRest /\ ExtractAtRest
  /\ FetchAtRest /\ SeqAtRest /\ CallAtRest /\ LinkAtRest /\ ScrollAtRest
  /\ PredictAtRest

SpecTable == InitTable /\ [][TableNext]_vars

\* one call of a scroll loop of web2, webscrap1 or fastscrap3
InitScroll ==
  ScrollInit /\ SaveInit /\ CollectAtRest /\ MainAtRest /\ ExtractAtRest
  /\ FetchAtRest /\ SeqAtRest /\ CallAtRest /\ LinkAtRest /\ TableAtRest
  /\ PredictAtRest

SpecScroll == InitScroll /\ [][ScrollNext]_vars

\* one call of predict_property_price of app.py
InitPredict ==
  PredictInit /\ SaveInit /\ CollectAtRest /\ MainAtRest /\ ExtractAtRest
  /\ FetchAtRest /\ SeqAtRest /\ CallAtRest /\ LinkAtRest /\ ScrollAtRest
  /\ TableAtRest

SpecPredict == InitPredict /\ [][PredictNext]_vars

\* one run of scrape_all: of fastscrap3, of webscrap2 or of webscrap3
InitScrapeAll ==
  /\ SaveInit /\ MainAtRest /\ ExtractAtRest /\ FetchAtRest /\ CallAtRest
  /\ LinkAtRest /\ ScrollAtRest /\ TableAtRest /\ PredictAtRest
  /\ \/ CollectInit /\ SeqAtRest
     \/ SeqInit /\ CollectAtRest

ScrapeAllNext == CollectNext \/ SeqNext

SpecScrapeAll == InitScrapeAll /\ [][ScrapeAllNext]_vars

Init ==
  SaveInit /\ CollectInit /\ MainAtRest /\ ExtractAtRest /\ FetchAtRest
  /\ SeqAtRest /\ CallAtRest /\ LinkAtRest /\ ScrollAtRest /\ TableAtRest
  /\ PredictAtRest

Next == SaveNext \/ CollectNext

Spec == Init /\ [][Next]_vars
(***************************************************************************)
(* Part I.  Properties of save_to_csv.                                     *)
(***************************************************************************)
\* the natural key of a row as it stands in the file
FileKey(r) == <<r.title, r.loc>>

UniqueKeys(rows) ==
  \A i, j \in 1..Len(rows) : i # j => FileKey(rows[i]) # FileKey(rows[j])

\* the rows of a file as read_csv loads them, none for a file it cannot load
LoadedRows(f) ==
  IF Readable(f) THEN {FromCsvRow(f.rows[i]) : i \in 1..Len(f.rows)} ELSE {}

Web2Returned(r) == pc = "done" /\ call.op = "web2" /\ call.ret = r

\* C1: after web2.save_to_csv returns True, on every path, the table at
\* output_path holds no two rows with the same (Property Title, Location).
C1_UniqueKeysAfterSave ==
  Web2Returned("true") => UniqueKeys(table.rows)

\* C2: merging into a readable existing table, a new record that shares its
\* (Property Title, Location) with an existing row and differs from it
\* elsewhere is discarded and the existing row's values are kept.
C2_ExistingRowWins ==
  (Web2Returned("true") /\ call.loaded /\ ~call.laterFailed
     /\ UniqueKeys(call.pre.rows))
  => \A i \in 1..Len(call.batch) : \A j \in 1..Len(call.pre.rows) :
       LET new == ToCsvRow(call.batch[i])
           old == call.pre.rows[j]
       IN (FileKey(new) = FileKey(old) /\ new # old)
          => /\ FromCsvRow(old) \in LoadedRows(table)
             /\ \A k \in 1..Len(table.rows) : table.rows[k] # new

\* C3: after a save of either script that returned True, every row the file
\* held before the save is still in the table or in a backup file.
C3_PriorRowsKept ==
  (pc = "done" /\ call.op \in {"web2", "webscrap1"} /\ call.ret = "true")
  => \A r \in LoadedRows(call.pre) :
       \/ r \in LoadedRows(table)
       \/ \E t \in Stamps : r \in LoadedRows(backups[t])

\* C4: when the existing table cannot be read, the file is first renamed to
\* its backup path and only then is the batch written to output_path: as
\* soon as output_path no longer holds the unreadable content, the backup
\* of this call holds it, and it still does when the call has ended.
C4_BackupBeforeFreshWrite ==
  (call.op = "web2" /\ call.loadFailed)
  => \/ ~call.renamed /\ table = call.pre
     \/ /\ call.renamed
        /\ call.stamp \in Stamps
        /\ backups[call.stamp] = call.pre
        /\ table \in {NoFile, ZeroBytes, to_csv(call.batch)}
        /\ call.ret = "true" => table = to_csv(call.batch)

C4_Witness ==
  /\ Web2Returned("true")
  /\ call.loadFailed /\ call.renamed
  /\ call.pre.exists /\ backups[call.stamp] = call.pre
  /\ table = to_csv(call.batch)

\* C5: a backup file is created only if loading the existing table failed;
\* a failure in a later step of the merge never renames the existing file.
C5_BackupOnlyOnLoadFailure ==
  (call.op = "web2" /\ call.renamed) => call.loadFailed

\* C6: saving the same batch twice in a row leaves the same rows as saving
\* it once.
SameRows(f, g) ==
  /\ Len(f.rows) = Len(g.rows)
  /\ LoadedRows(f) = LoadedRows(g)

C6_SaveTwiceSameRows ==
  (Web2Returned("true") /\ prevOk.ok) => SameRows(prevOk.after, table)

\* C7: a call with an empty batch returns False, leaves the table as it
\* was, and creates neither a table file nor a backup file.
C7_EmptyBatchNoEffect ==
  (call.op = "web2" /\ call.batch = <<>>)
  => /\ pc = "done" /\ call.ret = "false"
     /\ table = call.pre
     /\ backups = call.preBackups

C7_Witness ==
  /\ Web2Returned("false") /\ call.batch = <<>>
  /\ Readable(call.pre) /\ Len(call.pre.rows) > 0
  /\ table = call.pre

\* C8: on the load-success path, previous count = rows of the existing
\* table, added count = new records whose key is neither in the existing
\* table nor earlier in the batch (never negative), final count = previous
\* + added = rows written.
NewUnique(existing_rows, batch) ==
  Cardinality({i \in 1..Len(batch) :
    /\ \A e \in 1..Len(existing_rows) :
         FileKey(existing_rows[e]) # FileKey(ToCsvRow(batch[i]))
    /\ \A j \in 1..(i - 1) :
         FileKey(ToCsvRow(batch[j])) # FileKey(ToCsvRow(batch[i]))})

C8_Counts ==
  (Web2Returned("true") /\ call.loaded /\ ~call.laterFailed)
  => /\ call.previous = Len(call.pre.rows)
     /\ call.added = NewUnique(call.pre.rows, call.batch)
     /\ call.added >= 0
     /\ call.final = call.previous + call.added
     /\ call.final = Len(table.rows)

\* C9: if the process is interrupted during the rewrite of an existing
\* table, output_path holds the complete table of before the merge or the
\* complete merged table.
C9_AtomicRewrite ==
  (Web2Returned("interrupted") /\ call.loaded /\ ~call.laterFailed)
  => table = call.pre \/ table = pending

(***************************************************************************)
(* Part II.  Properties of scrape_all.                                     *)
(***************************************************************************)
Count(q, x) == Cardinality({i \in 1..Len(q) : q[i] = x})

\* C10: in step 2, for every URL list, worker count and interleaving,
\* self.properties ends with exactly one record per URL whose
\* extract_property_details returned a record and none for a URL whose
\* extraction failed; while step 2 runs no record is there twice, and a
\* failed URL never leaves the run without a next step, so every URL is
\* processed.
C10_OneRecordPerExtractedUrl ==
  /\ mpc = "step2" =>
       /\ ENABLED CollectSteps
       /\ \A u \in Urls :
            /\ Count(properties, u) <= 1
            /\ Count(properties, u) = 1 => Truthy(returned[u]) /\ returned[u] # "pending"
  /\ mpc = "step3" =>
       /\ \A u \in Range(all_urls) : returned[u] # "pending"
       /\ \A u \in Urls :
            Count(properties, u) =
              IF u \in Range(all_urls) /\ Truthy(returned[u]) THEN 1 ELSE 0

C10_Witness ==
  /\ mpc = "step3"
  /\ max_workers >= 2
  /\ Len(all_urls) >= 2
  /\ \E u, v \in Range(all_urls) :
       /\ returned[u] = "None"
       /\ returned[v] = "record"
       /\ properties = <<v>>

(***************************************************************************)
(* Part III.  Properties of main of web2 and webscrap1.                    *)
(***************************************************************************)
\* C11: in web2.main the failure of a listing page stays inside
\* scrape_page: scrape_page lets no exception out, and when the run ends
\* without a keyboard interrupt the records collected from the pages before
\* were passed to save_to_csv
C11_PageFailureContained ==
  script = "web2" =>
    /\ raised = "none"
    /\ (rpc = "exit" /\ kbd = "none" /\ all_properties # <<>>)
         => saves = <<all_properties>>

\* C16: a keyboard interrupt that arrives in web2.main or webscrap1.main
\* when records are collected reaches the top-level handler, and the session
\* is quit only after save_to_csv was called with those records
C16_InterruptSavesThenQuits ==
  (kbd # "none" /\ kbdHad # <<>>) =>
    /\ kbd = "caught"
    /\ driver = "quit" => (saves # <<>> /\ saves[Len(saves)] = kbdHad)

(***************************************************************************)
(* Part II.  Properties of a fastscrap3 run.                               *)
(***************************************************************************)
\* C12: a detail page without a title is dropped: no record whose
\* Property_Title is still "N/A" is in self.properties
C12_UntitledDropped ==
  \A u \in Urls : returned[u] = "untitled" => Count(properties, u) = 0

\* C15: scrape_all returns True only if save_to_csv wrote the file; a
\* failure while writing is a failed run
C15_TrueOnlyIfWritten ==
  (mpc = "returned" /\ retval = "True") => written

\* C17: when a keyboard interrupt ends a run that has records in
\* self.properties, the records are written before the sessions are closed
C17_InterruptPersists ==
  (mpc = "returned" /\ retval = "KeyboardInterrupt" /\ properties # <<>>)
    => written

\* sessions that exist: created and not quit, or being created by a worker
Sessions ==
  nDrivers - Cardinality(quitted)
    + Cardinality({w \in WorkerIds : wpc[w] = "create"})

C14_NothingFoundFails ==
  /\ all_urls = <<>> => properties = <<>>
  /\ properties = <<>> => ~saveCalled /\ ~written
  /\ (mpc = "returned" /\ retval \in {"True", "False"} /\ properties = <<>>)
       => retval = "False"
  /\ q_all_urls = <<>> => q_properties = <<>>
  /\ q_properties = <<>> => ~q_saveCalled /\ ~q_written
  /\ (q_pc = "returned" /\ q_retval \in {"True", "False"} /\ q_properties = <<>>)
       => q_retval = "False"

C14_Witness ==
  /\ q_script = "webscrap2"
  /\ q_pc = "returned"
  /\ q_all_urls # <<>>
  /\ q_idx > Len(q_all_urls)
  /\ q_properties = <<>>
  /\ q_retval = "False"
  /\ q_driver = "quit"

C21_FailedNavigationRetried ==
  (c_pc = "returned" /\ c_failedAt = "load") => c_loads >= 2

\* C28: a call that got a session puts it into driver_pool once, when it
\* ends, whether it returns a result or its except clause ran; before its
\* end it puts nothing, and a call without a session puts nothing at all.
C28_SessionPutBackOnce ==
  [][/\ (c_pc # "returned" /\ c_pc' = "returned")
          => c_pool' = IF c_driver # 0 THEN Append(c_pool, c_driver) ELSE c_pool
     /\ (c_pc # "get_driver" /\ c_pc' # "returned") => c_pool' = c_pool]_vars

\* a call whose try block raised has ended with its session back in the pool
C28_Witness ==
  /\ c_pc = "returned"
  /\ c_failedAt # "none"
  /\ c_driver # 0
  /\ Count(c_pool, c_driver) = 1
(***************************************************************************)
(* Part VIII.  Properties of the URL list of a listing page.               *)
(***************************************************************************)
NoDuplicates(q) == \A i, j \in 1..Len(q) : q[i] = q[j] => i = j

Reordered(q, p) == [i \in 1..Len(q) |-> q[p[i]]]

\* C22: the list extract_urls_from_page returns holds no URL twice, two
\* hrefs with the same absolute URL give one entry, and every reordering of
\* the page's links gives the same set of URLs.
C22_UrlsUniqueAnyOrder ==
  l_pc = "returned" =>
    /\ NoDuplicates(l_urls)
    /\ \A i \in 1..Len(l_links) :
         (LooksLikeProperty(l_links[i]) /\ NotSearch(l_links[i]))
           => Count(l_urls, Href("http", l_links[i].path, "property")) = 1
    /\ \A p \in Permutations(1..Len(l_links)) :
         Range(PropertyUrls(l_script, Reordered(l_links, p))) = Range(l_urls)

\* a page that names one property by a relative and by an absolute href,
\* next to another property
C22_Witness ==
  /\ l_pc = "returned"
  /\ Len(l_urls) = 2
  /\ \E i, j \in 1..Len(l_links) :
       /\ l_links[i] = Href("slash", "p1", "property")
       /\ l_links[j] = Href("http", "p1", "property")
(***************************************************************************)
(* Parts II and VI.  More properties of scrape_all of the three scrapers.  *)
(***************************************************************************)
\* C23: the list of URLs whose detail pages are fetched names no URL twice,
\* also when a URL was found on several listing pages.
C23_UrlsDedupAcrossPages ==
  /\ mpc = "step2" => NoDuplicates(all_urls)
  /\ q_pc = "step2" => NoDuplicates(q_all_urls)
(***************************************************************************)
(* Part IX.  Properties of the dataset files.                              *)
(***************************************************************************)
\* C24: a dataset file written by save_to_csv has the one column set of the
\* three scripts, the column of the source URL among them, and every row
\* has a value in every column.
C24_FixedColumnsWithUrl ==
  t_pc = "saved" =>
    /\ \A s \in Extractors : Range(t_file.columns) = Range(Columns(s))
    /\ "Property_URL" \in Range(t_file.columns)
    /\ \A i \in 1..Len(t_file.rows) :
         /\ DOMAIN t_file.rows[i] = Range(t_file.columns)
         /\ \A c \in Range(t_file.columns) : t_file.rows[i][c] # Blank
(***************************************************************************)
(* Part X.  Properties of the scroll loops.                                *)
(***************************************************************************)
\* what is left of the loop: the turns of the range, or in webscrap1 the
\* pixels between current_position and total_height
Remaining ==
  IF s_script = "webscrap1" THEN total_height - current_position
  ELSE ScrollRange(s_script) - s_i

\* C25: the scrolling of a fetch ends after a bounded number of scroll
\* steps whatever the page does: every scroll step leaves less of the loop
\* than there was before it, also when the page grows while it is scrolled.
C25_ScrollStepsBounded ==
  [][s_i' = s_i + 1 => Remaining' < Remaining]_vars
(***************************************************************************)
(* Part II.  Properties of the driver pool of fastscrap3.                  *)
(***************************************************************************)
\* C26: no session is held by two workers at once, and a session a worker
\* holds is not in driver_pool, where another worker could get it, until
\* the worker has returned it.
C26_NoSharedSession ==
  \A w \in WorkerIds :
    wdrv[w] # 0 =>
      /\ \A v \in WorkerIds \ {w} : wdrv[v] # wdrv[w]
      /\ Count(driver_pool, wdrv[w]) = 0

\* in step 2 two workers hold a session each, sessions that were held and
\* returned in step 1
C26_Witness ==
  /\ mpc = "step2"
  /\ \E w, v \in WorkerIds : w # v /\ wdrv[w] # 0 /\ wdrv[v] # 0

\* a worker waits in driver_pool.get() on an empty pool
Waits(w) == wpc[w] = "get" /\ driver_pool = <<>>

\* C27: a worker that found the pool non-empty and went on to
\* driver_pool.get() obtains a session in the end, and whenever a worker
\* waits on an empty pool another worker holds a session it will return.
C27_GetDriverReturns ==
  /\ [](\A w \in WorkerIds :
          Waits(w) => \E v \in WorkerIds : wpc[v] = "run" /\ wdrv[v] # 0)
  /\ \A w \in WorkerIds : (wpc[w] = "get") ~> (wpc[w] = "run" /\ wdrv[w] # 0)

\* a worker waits on the dequeue: another worker took the one session
\* between this worker's test of empty() and its get()
C27_Witness ==
  \E w, v \in WorkerIds : Waits(w) /\ wpc[v] = "run"

\* step 1 of scrape_all is over and was not cut short
PagesDone ==
  \/ mpc = "step1" /\ consumed = Len(PagesToWalk)
  \/ mpc \in {"step2", "step3"}
  \/ mpc = "returned" /\ retval = "True"

\* C29: scrape_all calls extract_urls_from_page for the pages 36..num_pages,
\* once each, and for no other page; with num_pages < 36 it calls it for no
\* page, has no URL, writes no file and returns False.
C29_Pages36ToNumPages ==
  /\ NoDuplicates(walked)
  /\ Range(walked) \subseteq FirstPage..num_pages
  /\ PagesDone => Range(walked) = FirstPage..num_pages
  /\ num_pages < FirstPage =>
       /\ walked = <<>> /\ all_urls = <<>> /\ ~written /\ ~saveCalled
       /\ (mpc = "returned" /\ retval # "KeyboardInterrupt") => retval = "False"

\* a run over the pages 36 and 37 has walked both and goes on to step 2
C29_Witness ==
  /\ mpc = "step2"
  /\ num_pages = FirstPage + 1
  /\ Len(walked) = 2
(***************************************************************************)
(* Part XI.  Properties of predict_property_price.                         *)
(***************************************************************************)
\* whether label_encoders has a fitted encoder for the key that knows the
\* value of its field
Knows(k) ==
  /\ label_encoders[k].is = "LabelEncoder"
  /\ FieldValue(k, p_args) \in Range(label_encoders[k].classes_)

\* C30: every categorical field gets the code its label encoder has for
\* it, and 0 when the encoder is missing or does not know the value; the
\* call does not fail for that (it fails only when feature_columns names a
\* feature the function does not compute), and a row handed to the model
\* has every column of feature_columns.
C30_UnknownEncodedAsZero ==
  /\ p_pc = "failed" => ~(Range(feature_columns) \subseteq FeatureKeys)
  /\ features # <<>> =>
       \A k \in EncoderKeys :
         /\ Knows(k) =>
              label_encoders[k].classes_[features[EncodedKey(k)] + 1]
                = FieldValue(k, p_args)
         /\ ~Knows(k) => features[EncodedKey(k)] = 0
  /\ (p_pc = "predicted" /\ features # <<>>) =>
       DOMAIN input_df = Range(feature_columns)

\* a call with one encoder missing, one that does not know its value and
\* one that gives a code other than 0
C30_Witness ==
  /\ p_pc = "predicted"
  /\ features # <<>>
  /\ label_encoders["Location_Clean"] = NoEncoder
  /\ label_encoders["Property_Type"].is = "LabelEncoder"
  /\ p_args.property_type = "Castle"
  /\ features["Furnishing_Encoded"] = 0 /\ ~Knows("Furnishing")
  /\ features["Bedroom_Category_Encoded"] = 1

====
